---------------------------- MODULE Spec2Model ----------------------------
(***************************************************************************)
(* Verification model of the water-tank firmware's three-way sync core:    *)
(* the Last-Write-Wins merge engine (sync_merge.cpp), the control and      *)
(* config aggregates (handle_control_data.cpp, handle_config_data.cpp),    *)
(* the cloud fetch / push paths (api_client.cpp, device_config.cpp,        *)
(* control_data.cpp) and the background tasks of main.cpp.                 *)
(*                                                                         *)
(* Float values are integers counting units of 0.0005, so that the         *)
(* comparison "abs(new - old) > 0.001f" of mergeFloat is the integer test  *)
(* |new - old| > FloatEps with FloatEps = 2 units.                         *)
(***************************************************************************)
EXTENDS Integers, Sequences, FiniteSets, TLC

(***************************************************************************)
(* Bounds of the model.                                                    *)
(***************************************************************************)
\* Small timestamps 0..MaxTs, next to the two timestamps 50 and 100 of the
\* specification's end-to-end scenario A.
MaxTs == 2

\* Timestamps fed to the single-field merge specification.
TsVals == (0..MaxTs) \cup {50, 100}

\* Timestamps (received ones, and readings of millis()) in the aggregate
\* specifications: 0..MaxAggTs.
MaxAggTs == 1

AggTs == 0..MaxAggTs

(***************************************************************************)
(* Value domains.  Floats in units of 0.0005: 20000 = 10.0, 20001 =        *)
(* 10.0005 (closer to 10.0 than the merge epsilon), 30000 = 15.0,          *)
(* 40000 = 20.0.                                                           *)
(***************************************************************************)
FloatVals == {20000, 20001, 30000, 40000}
StringVals == {"", "Cylindrical", "Rectangular"}
BoolVals == BOOLEAN

\* abs(sync.value - oldValue) > 0.001f, sync_merge.cpp:129
FloatEps == 2

Abs(x) == IF x < 0 THEN -x ELSE x

ValuesOf(kind) ==
    CASE kind = "bool" -> BoolVals
      [] kind = "float" -> FloatVals
      [] kind = "string" -> StringVals

\* struct SyncBool / SyncFloat / SyncString: three timestamped observations.
SyncValue(vals, tss) ==
    [api_value : vals, api_lastModified : tss,
     local_value : vals, local_lastModified : tss,
     value : vals, lastModified : tss]

(***************************************************************************)
(* SyncMerge::findWinner: 1 = API, 2 = LOCAL, 3 = SELF.                    *)
(***************************************************************************)
FindWinnerNoTieOrder(api_ts, local_ts, self_ts) ==
    \* mutant: ">=" instead of ">" in the LWW scan, so a later source wins ties
    LET api_is_set == api_ts > 0
        local_is_set == local_ts > 0
        self_is_set == self_ts > 0
    IN  IF api_is_set /\ ~local_is_set /\ ~self_is_set THEN 1
        ELSE IF ~api_is_set /\ local_is_set /\ ~self_is_set THEN 2
        ELSE IF ~api_is_set /\ ~local_is_set /\ self_is_set THEN 3
        ELSE IF ~api_is_set /\ ~local_is_set /\ ~self_is_set THEN 1
        ELSE LET n1 == IF api_is_set /\ api_ts >= 0 THEN api_ts ELSE 0
                 w1 == 1
                 n2 == IF local_is_set /\ local_ts >= n1 THEN local_ts ELSE n1
                 w2 == IF local_is_set /\ local_ts >= n1 THEN 2 ELSE w1
                 w3 == IF self_is_set /\ self_ts >= n2 THEN 3 ELSE w2
             IN  w3

FindWinnerSwappedReturn(api_ts, local_ts, self_ts) ==
    \* mutant: the "only Local set" shortcut returns SELF (a copy-paste slip)
    LET api_is_set == api_ts > 0
        local_is_set == local_ts > 0
        self_is_set == self_ts > 0
    IN  IF api_is_set /\ ~local_is_set /\ ~self_is_set THEN 1
        ELSE IF ~api_is_set /\ local_is_set /\ ~self_is_set THEN 3
        ELSE IF ~api_is_set /\ ~local_is_set /\ self_is_set THEN 3
        ELSE IF ~api_is_set /\ ~local_is_set /\ ~self_is_set THEN 1
        ELSE LET n1 == IF api_is_set /\ api_ts > 0 THEN api_ts ELSE 0
                 w1 == 1
                 n2 == IF local_is_set /\ local_ts > n1 THEN local_ts ELSE n1
                 w2 == IF local_is_set /\ local_ts > n1 THEN 2 ELSE w1
                 w3 == IF self_is_set /\ self_ts > n2 THEN 3 ELSE w2
             IN  w3

FindWinnerNoneSetSelf(api_ts, local_ts, self_ts) ==
    \* mutant: with no source set the device keeps its own value
    LET api_is_set == api_ts > 0
        local_is_set == local_ts > 0
        self_is_set == self_ts > 0
    IN  IF api_is_set /\ ~local_is_set /\ ~self_is_set THEN 1
        ELSE IF ~api_is_set /\ local_is_set /\ ~self_is_set THEN 2
        ELSE IF ~api_is_set /\ ~local_is_set /\ self_is_set THEN 3
        ELSE IF ~api_is_set /\ ~local_is_set /\ ~self_is_set THEN 3
        ELSE LET n1 == IF api_is_set /\ api_ts > 0 THEN api_ts ELSE 0
                 w1 == 1
                 n2 == IF local_is_set /\ local_ts > n1 THEN local_ts ELSE n1
                 w2 == IF local_is_set /\ local_ts > n1 THEN 2 ELSE w1
                 w3 == IF self_is_set /\ self_ts > n2 THEN 3 ELSE w2
             IN  w3

FindWinnerSelfOnlyApi(api_ts, local_ts, self_ts) ==
    \* mutant: the "only Self is set" shortcut returns API
    LET api_is_set == api_ts > 0
        local_is_set == local_ts > 0
        self_is_set == self_ts > 0
    IN  IF api_is_set /\ ~local_is_set /\ ~self_is_set THEN 1
        ELSE IF ~api_is_set /\ local_is_set /\ ~self_is_set THEN 2
        ELSE IF ~api_is_set /\ ~local_is_set /\ self_is_set THEN 1
        ELSE IF ~api_is_set /\ ~local_is_set /\ ~self_is_set THEN 1
        ELSE LET a == IF api_is_set /\ api_ts > 0 THEN <<api_ts, 1>> ELSE <<0, 1>>
                 b == IF local_is_set /\ local_ts > a[1] THEN <<local_ts, 2>> ELSE a
                 c == IF self_is_set /\ self_ts > b[1] THEN <<self_ts, 3>> ELSE b
             IN  c[2]

FindWinner(api_ts, local_ts, self_ts) ==
    LET api_is_set == api_ts > 0
        local_is_set == local_ts > 0
        self_is_set == self_ts > 0
    IN  IF api_is_set /\ ~local_is_set /\ ~self_is_set THEN 1
        ELSE IF ~api_is_set /\ local_is_set /\ ~self_is_set THEN 2
        ELSE IF ~api_is_set /\ ~local_is_set /\ self_is_set THEN 3
        ELSE IF ~api_is_set /\ ~local_is_set /\ ~self_is_set THEN 1
        ELSE \* newest = 0, winner = 1, then the three strict comparisons
             LET n1 == IF api_is_set /\ api_ts > 0 THEN api_ts ELSE 0
                 w1 == 1
                 n2 == IF local_is_set /\ local_ts > n1 THEN local_ts ELSE n1
                 w2 == IF local_is_set /\ local_ts > n1 THEN 2 ELSE w1
                 w3 == IF self_is_set /\ self_ts > n2 THEN 3 ELSE w2
             IN  w3

(***************************************************************************)
(* The switch (winner) shared by mergeBool, mergeFloat and mergeString:    *)
(* the winner's value and timestamp are copied into value/lastModified,    *)
(* the api and local slots are left as received.                           *)
(***************************************************************************)
CopyWinnerWritesBack(sync, winner) ==
    \* mutant: the win is also written back into the losing sources' slots
    LET v == CASE winner = 1 -> sync.api_value
               [] winner = 2 -> sync.local_value
               [] OTHER -> sync.value
        t == CASE winner = 1 -> sync.api_lastModified
               [] winner = 2 -> sync.local_lastModified
               [] OTHER -> sync.lastModified
    IN  [api_value |-> v, api_lastModified |-> t,
         local_value |-> v, local_lastModified |-> t,
         value |-> v, lastModified |-> t]

CopyWinner(sync, winner) ==
    CASE winner = 1 ->
           [sync EXCEPT !.value = sync.api_value,
                        !.lastModified = sync.api_lastModified]
      [] winner = 2 ->
           [sync EXCEPT !.value = sync.local_value,
                        !.lastModified = sync.local_lastModified]
      [] OTHER -> sync

\* SyncMerge::mergeBool: the merged field and the "value changed" result.
MergeBool(sync) ==
    LET winner == FindWinner(sync.api_lastModified, sync.local_lastModified,
                             sync.lastModified)
        oldValue == sync.value
        merged == CopyWinner(sync, winner)
    IN  [sync |-> merged, changed |-> (merged.value # oldValue)]

\* SyncMerge::mergeFloat
MergeFloat(sync) ==
    LET winner == FindWinner(sync.api_lastModified, sync.local_lastModified,
                             sync.lastModified)
        oldValue == sync.value
        merged == CopyWinner(sync, winner)
    IN  [sync |-> merged, changed |-> (Abs(merged.value - oldValue) > FloatEps)]

\* SyncMerge::mergeString
MergeString(sync) ==
    LET winner == FindWinner(sync.api_lastModified, sync.local_lastModified,
                             sync.lastModified)
        oldValue == sync.value
        merged == CopyWinner(sync, winner)
    IN  [sync |-> merged, changed |-> (merged.value # oldValue)]

MergeOfChangedWhenRemoteWins(kind, sync) ==
    \* mutant: "changed" reports that a remote source won, not that the
    \* effective value moved
    [sync |-> CopyWinner(sync, FindWinner(sync.api_lastModified,
                                          sync.local_lastModified,
                                          sync.lastModified)),
     changed |-> FindWinner(sync.api_lastModified, sync.local_lastModified,
                            sync.lastModified) # 3]

MergeOf(kind, sync) ==
    CASE kind = "bool" -> MergeBool(sync)
      [] kind = "float" -> MergeFloat(sync)
      [] kind = "string" -> MergeString(sync)

(***************************************************************************)
(* ControlDataHandler: pumpSwitch and configUpdate, both SyncBool.         *)
(***************************************************************************)
\* ControlDataHandler::begin
ControlBegin ==
    [pumpSwitch |->
        [api_value |-> FALSE, api_lastModified |-> 0,
         local_value |-> FALSE, local_lastModified |-> 0,
         value |-> FALSE, lastModified |-> 0],
     configUpdate |->
        [api_value |-> TRUE, api_lastModified |-> 0,
         local_value |-> TRUE, local_lastModified |-> 0,
         value |-> TRUE, lastModified |-> 0]]

ControlUpdateFromAPIWritesMerged(h, ps, ps_ts, cu, cu_ts) ==
    \* mutant: the API's pump switch is written into the merged value as well
    [pumpSwitch |-> [h.pumpSwitch EXCEPT !.api_value = ps,
                                         !.api_lastModified = ps_ts,
                                         !.value = ps],
     configUpdate |-> [h.configUpdate EXCEPT !.api_value = cu,
                                             !.api_lastModified = cu_ts]]

\* ControlDataHandler::updateFromAPI
ControlUpdateFromAPI(h, ps, ps_ts, cu, cu_ts) ==
    [pumpSwitch |-> [h.pumpSwitch EXCEPT !.api_value = ps,
                                         !.api_lastModified = ps_ts],
     configUpdate |-> [h.configUpdate EXCEPT !.api_value = cu,
                                             !.api_lastModified = cu_ts]]

\* ControlDataHandler::updateFromLocal
ControlUpdateFromLocal(h, ps, ps_ts, cu, cu_ts) ==
    [pumpSwitch |-> [h.pumpSwitch EXCEPT !.local_value = ps,
                                         !.local_lastModified = ps_ts],
     configUpdate |-> [h.configUpdate EXCEPT !.local_value = cu,
                                             !.local_lastModified = cu_ts]]

\* ControlDataHandler::updateSelf; now is the reading of millis()
ControlUpdateSelf(h, ps, cu, now) ==
    [pumpSwitch |-> [h.pumpSwitch EXCEPT !.value = ps, !.lastModified = now],
     configUpdate |-> [h.configUpdate EXCEPT !.value = cu, !.lastModified = now]]

ControlMergeFirstFieldOnly(h) ==
    \* mutant: the result forgets the second field's change flag
    LET p == MergeBool(h.pumpSwitch)
        c == MergeBool(h.configUpdate)
    IN  [handler |-> [pumpSwitch |-> p.sync, configUpdate |-> c.sync],
         changed |-> p.changed]

\* ControlDataHandler::merge
ControlMerge(h) ==
    LET p == MergeBool(h.pumpSwitch)
        c == MergeBool(h.configUpdate)
    IN  [handler |-> [pumpSwitch |-> p.sync, configUpdate |-> c.sync],
         changed |-> (p.changed \/ c.changed)]

\* ControlDataHandler::setPumpSwitchPriority
SetPumpSwitchPriority(h, v) ==
    [h EXCEPT !.pumpSwitch =
        [@ EXCEPT !.value = v, !.lastModified = 0,
                  !.api_lastModified = 0, !.local_lastModified = 0]]

\* ControlDataHandler::setConfigUpdatePriority
SetConfigUpdatePriority(h, v) ==
    [h EXCEPT !.configUpdate =
        [@ EXCEPT !.value = v, !.lastModified = 0,
                  !.api_lastModified = 0, !.local_lastModified = 0]]

(***************************************************************************)
(* ConfigDataHandler: nine fields.  The object is a record of the nine     *)
(* Sync values; the arguments of the update operations are records of the  *)
(* nine values (v) and of the nine timestamps (ts).                        *)
(***************************************************************************)
\* include/config.h, in units of 0.0005
DEFAULT_UPPER_THRESHOLD == 85 * 2000
DEFAULT_LOWER_THRESHOLD == 20 * 2000
DEFAULT_TANK_HEIGHT == 100 * 2000
DEFAULT_TANK_WIDTH == 50 * 2000

ConfigFields ==
    {"upperThreshold", "lowerThreshold", "tankHeight", "tankWidth",
     "tankShape", "usedTotal", "maxInflow", "forceUpdate", "ipAddress"}

\* SyncFloat / SyncString / SyncBool members of class ConfigDataHandler
ConfigKind(f) ==
    CASE f \in {"tankShape", "ipAddress"} -> "string"
      [] f = "forceUpdate" -> "bool"
      [] OTHER -> "float"

\* SyncBool(), SyncFloat(), SyncString(): the zero value of each kind
ZeroOf(k) ==
    CASE k = "bool" -> FALSE
      [] k = "float" -> 0
      [] k = "string" -> ""

\* the values ConfigDataHandler::begin assigns
ConfigDefaults ==
    [upperThreshold |-> DEFAULT_UPPER_THRESHOLD,
     lowerThreshold |-> DEFAULT_LOWER_THRESHOLD,
     tankHeight |-> DEFAULT_TANK_HEIGHT,
     tankWidth |-> DEFAULT_TANK_WIDTH,
     tankShape |-> "Cylindrical",
     usedTotal |-> 0,
     maxInflow |-> 0,
     forceUpdate |-> FALSE,
     ipAddress |-> ""]

\* ConfigDataHandler::begin after the members' constructors: only .value is
\* assigned, the api and local slots keep the constructors' zero values
ConfigBegin ==
    [f \in ConfigFields |->
        [api_value |-> ZeroOf(ConfigKind(f)), api_lastModified |-> 0,
         local_value |-> ZeroOf(ConfigKind(f)), local_lastModified |-> 0,
         value |-> ConfigDefaults[f], lastModified |-> 0]]

\* ConfigDataHandler::updateFromAPI
ConfigUpdateFromAPI(h, v, ts) ==
    [f \in ConfigFields |->
        [h[f] EXCEPT !.api_value = v[f], !.api_lastModified = ts[f]]]

\* ConfigDataHandler::updateFromLocal
ConfigUpdateFromLocal(h, v, ts) ==
    [f \in ConfigFields |->
        [h[f] EXCEPT !.local_value = v[f], !.local_lastModified = ts[f]]]

\* ConfigDataHandler::updateSelf; now is the reading of millis()
ConfigUpdateSelf(h, v, now) ==
    [f \in ConfigFields |->
        [h[f] EXCEPT !.value = v[f], !.lastModified = now]]

ConfigMergeFloatsOnly(h) ==
    \* mutant: the string and bool fields are left out of the merge
    [handler |-> [f \in ConfigFields |->
                     IF ConfigKind(f) = "float" THEN MergeFloat(h[f]).sync
                                                ELSE h[f]],
     changed |-> \E f \in ConfigFields :
                     ConfigKind(f) = "float" /\ MergeFloat(h[f]).changed]

\* ConfigDataHandler::merge
ConfigMerge(h) ==
    LET m == [f \in ConfigFields |-> MergeOf(ConfigKind(f), h[f])]
    IN  [handler |-> [f \in ConfigFields |-> m[f].sync],
         changed |-> \E f \in ConfigFields : m[f].changed]

\* ConfigDataHandler::setAllPriority
ConfigSetAllPriority(h) ==
    [f \in ConfigFields |-> [h[f] EXCEPT !.lastModified = 0]]

(***************************************************************************)
(* Cloud snapshots.  struct DeviceConfig and struct ControlData hold a     *)
(* value and its LastModified timestamp per field; here each field is a    *)
(* record [value, lastModified] under the name of the value member.        *)
(***************************************************************************)
\* include/config.h
DEFAULT_SENSOR_FILTER == TRUE

\* the fields a config response or a config payload carries
PayloadFields == ConfigFields \cup {"sensorFilter"}

\* the members of struct DeviceConfig
DeviceConfigFields == PayloadFields \cup {"auto_update"}

\* DeviceConfig::DeviceConfig()
NewDeviceConfig ==
    [f \in DeviceConfigFields |->
        [value |-> CASE f \in {"sensorFilter"} -> DEFAULT_SENSOR_FILTER
                     [] f = "auto_update" -> TRUE
                     [] OTHER -> ZeroOf(ConfigKind(f)),
         lastModified |-> 0]]

\* ControlData::ControlData()
NewControlData ==
    [pumpSwitch |-> [value |-> FALSE, lastModified |-> 0],
     config_update |-> [value |-> FALSE, lastModified |-> 0]]

\* DeviceConfigManager::configValuesChanged: auto_update is not compared
ConfigValuesChanged(a, b) ==
    \E f \in PayloadFields : a[f].value # b[f].value

\* DeviceConfig::valuesChanged
ValuesChanged(a, b) ==
    \E f \in DeviceConfigFields : a[f].value # b[f].value

(***************************************************************************)
(* HTTP responses.  A response is                                          *)
(*   http      "fail": httpRequest returned false (no 2xx in the retries)  *)
(*   json      "bad": deserializeJson reports an error                     *)
(*   container FALSE: no deviceConfig / controlData object under the       *)
(*             document, under "data" or under "device"                    *)
(*   fields    per field, how the container carries it:                    *)
(*             form "absent", "nested" ({value, lastModified}) or          *)
(*             "direct" (the bare value)                                   *)
(***************************************************************************)
\* what parseConfig substitutes for a field it does not find
ParseDefaults ==
    [upperThreshold |-> DEFAULT_UPPER_THRESHOLD,
     lowerThreshold |-> DEFAULT_LOWER_THRESHOLD,
     tankHeight |-> DEFAULT_TANK_HEIGHT,
     tankWidth |-> DEFAULT_TANK_WIDTH,
     tankShape |-> "CYLINDRICAL",
     usedTotal |-> 0,
     maxInflow |-> 0,
     forceUpdate |-> FALSE,
     sensorFilter |-> DEFAULT_SENSOR_FILTER,
     ipAddress |-> ""]

\* the field-by-field part of parseConfig / parseControl; first is the field
\* whose "value" key decides between the nested and the direct format
ParseFields(fields, defaults, first) ==
    LET isNested == fields[first].form = "nested"
    IN  [f \in DOMAIN fields |->
            IF isNested
            THEN IF fields[f].form = "nested"
                 THEN [value |-> fields[f].value,
                       lastModified |-> fields[f].lastModified]
                 ELSE [value |-> defaults[f], lastModified |-> 0]
            ELSE IF fields[f].form = "direct"
                 THEN [value |-> fields[f].value, lastModified |-> 0]
                 ELSE [value |-> defaults[f], lastModified |-> 0]]

\* DeviceConfigManager::parseConfig into a fresh DeviceConfig
ParseConfig(resp) ==
    IF resp.json = "bad" \/ ~resp.container
    THEN [ok |-> FALSE, config |-> NewDeviceConfig]
    ELSE LET parsed == ParseFields(resp.fields, ParseDefaults, "upperThreshold")
         IN  [ok |-> TRUE,
              config |-> [f \in DeviceConfigFields |->
                             IF f \in PayloadFields THEN parsed[f]
                                                    ELSE NewDeviceConfig[f]]]

\* ControlDataManager::parseControl into a fresh ControlData
ParseControl(resp) ==
    IF resp.json = "bad" \/ ~resp.container
    THEN [ok |-> FALSE, control |-> NewControlData]
    ELSE [ok |-> TRUE,
          control |-> ParseFields(resp.fields,
                                  [pumpSwitch |-> FALSE, config_update |-> FALSE],
                                  "pumpSwitch")]

\* DeviceConfigManager::fetchAndApplyServerConfig(config): the GET, the
\* parse, and the comparison of the values with those of config
ManagerFetchConfig(config, resp) ==
    LET parsed == ParseConfig(resp)
    IN  IF resp.http = "fail" \/ ~parsed.ok
        THEN [ok |-> FALSE, config |-> config]
        ELSE IF ConfigValuesChanged(config, parsed.config)
             THEN [ok |-> TRUE, config |-> parsed.config]
             ELSE [ok |-> FALSE,
                   config |-> [f \in DeviceConfigFields |->
                       IF f \in PayloadFields
                       THEN [config[f] EXCEPT
                               !.lastModified = parsed.config[f].lastModified]
                       ELSE config[f]]]

\* ControlDataManager::fetchControl(control)
ManagerFetchControl(control, resp) ==
    LET parsed == ParseControl(resp)
    IN  IF resp.http = "fail" \/ ~parsed.ok
        THEN [ok |-> FALSE, control |-> control]
        ELSE [ok |-> TRUE, control |-> parsed.control]

\* "if (x.LastModified == 0) x.LastModified = currentTime" when time is synced
StampZero(rec, fields, timeSynced, currentTime) ==
    [f \in DOMAIN rec |->
        IF timeSynced /\ f \in fields /\ rec[f].lastModified = 0
        THEN [rec[f] EXCEPT !.lastModified = currentTime]
        ELSE rec[f]]

\* the nine values / timestamps of a DeviceConfig, as handler arguments
ConfigValuesOf(config) == [f \in ConfigFields |-> config[f].value]

ConfigStampsOf(config) == [f \in ConfigFields |-> config[f].lastModified]

\* "config.x = configHandler.getX(); config.xLastModified = ..." for the
\* nine handler fields
CopyMerged(config, h) ==
    [f \in DOMAIN config |->
        IF f \in ConfigFields
        THEN [value |-> h[f].value, lastModified |-> h[f].lastModified]
        ELSE config[f]]

(***************************************************************************)
(* APIClient: fetch and merge, push with priority.                         *)
(***************************************************************************)
\* APIClient::fetchAndApplyServerConfig(config)
APIFetchConfig(h, config, resp, auth, timeSynced, currentTime) ==
    LET fetched == ManagerFetchConfig(NewDeviceConfig, resp)
        apiConfig == StampZero(fetched.config, ConfigFields, timeSynced, currentTime)
        merged == ConfigMerge(ConfigUpdateFromAPI(h, ConfigValuesOf(apiConfig),
                                                  ConfigStampsOf(apiConfig))).handler
    IN  IF ~auth \/ ~fetched.ok
        THEN [ok |-> FALSE, handler |-> h, config |-> config]
        ELSE [ok |-> TRUE, handler |-> merged, config |-> CopyMerged(config, merged)]

\* APIClient::fetchControl(control)
APIFetchControl(h, control, resp, auth, timeSynced, currentTime) ==
    LET fetched == ManagerFetchControl(NewControlData, resp)
        apiControl == StampZero(fetched.control, {"pumpSwitch", "config_update"},
                                timeSynced, currentTime)
        merged == ControlMerge(ControlUpdateFromAPI(h,
                      apiControl.pumpSwitch.value, apiControl.pumpSwitch.lastModified,
                      apiControl.config_update.value,
                      apiControl.config_update.lastModified)).handler
    IN  IF ~auth \/ ~fetched.ok
        THEN [ok |-> FALSE, handler |-> h, control |-> control]
        ELSE [ok |-> TRUE, handler |-> merged,
              control |-> [pumpSwitch |->
                              [value |-> merged.pumpSwitch.value,
                               lastModified |-> merged.pumpSwitch.lastModified],
                           config_update |->
                              [value |-> merged.configUpdate.value,
                               lastModified |-> merged.configUpdate.lastModified]]]

BuildConfigPayloadKeepsStamps(config, priority) ==
    \* mutant: the priority flag is ignored, the fields' own timestamps are sent
    [f \in PayloadFields |->
        [value |-> config[f].value,
         lastModified |-> config[f].lastModified]]

\* DeviceConfigManager::buildConfigPayload.  The cast to unsigned long of the
\* non-priority branch is the identity on the model's timestamps.
BuildConfigPayload(config, priority) ==
    [f \in PayloadFields |->
        [value |-> config[f].value,
         lastModified |-> IF priority THEN 0 ELSE config[f].lastModified]]

\* ControlDataManager::buildControlPayload
BuildControlPayload(control) ==
    [pumpSwitch |-> [value |-> control.pumpSwitch.value, lastModified |-> 0],
     config_update |-> [value |-> control.config_update.value, lastModified |-> 0]]

ManagerSendConfigIgnoresSuccess(config, post) ==
    \* mutant: any parsable 2xx answer counts as an accepted push
    IF post.http = "ok" /\ post.json = "ok"
    THEN [ok |-> TRUE,
          config |-> [f \in DeviceConfigFields |->
                         IF f \in PayloadFields
                         THEN [config[f] EXCEPT !.lastModified = post.timestamp]
                         ELSE config[f]]]
    ELSE [ok |-> FALSE, config |-> config]

\* DeviceConfigManager::sendConfigWithPriority(config); post is the outcome
\* of the POST: http "fail" or "ok", json "bad" or "ok", the response's
\* "success" and "timestamp"
ManagerSendConfigWithPriority(config, post) ==
    IF post.http = "ok" /\ post.json = "ok" /\ post.success
    THEN [ok |-> TRUE,
          config |-> [f \in DeviceConfigFields |->
                         IF f \in PayloadFields
                         THEN [config[f] EXCEPT !.lastModified = post.timestamp]
                         ELSE config[f]]]
    ELSE [ok |-> FALSE, config |-> config]

(***************************************************************************)
(* Arguments the aggregate specification passes to the config updates.     *)
(* ConfigB differs from the defaults in every field; its tankWidth is      *)
(* 50.0005, closer to the default than the merge epsilon.                  *)
(***************************************************************************)
ConfigB ==
    [upperThreshold |-> 75 * 2000,
     lowerThreshold |-> 25 * 2000,
     tankHeight |-> 120 * 2000,
     tankWidth |-> DEFAULT_TANK_WIDTH + 1,
     tankShape |-> "Rectangular",
     usedTotal |-> 10 * 2000,
     maxInflow |-> 5 * 2000,
     forceUpdate |-> TRUE,
     ipAddress |-> "192.168.1.50"]

ConfigArgs == {ConfigDefaults, ConfigB}

\* per-field timestamps: the two thresholds carry t1, the other fields t2
ConfigTsArgs ==
    {[f \in ConfigFields |->
        IF f \in {"upperThreshold", "lowerThreshold"} THEN t1 ELSE t2] :
        t1 \in AggTs, t2 \in AggTs}


(***************************************************************************)
(* State.                                                                  *)
(***************************************************************************)
VARIABLES
    kind,      \* single-field specification: "bool", "float" or "string"
    sync,      \* single-field specification: the Sync value being merged
    pre,       \* single-field specification: sync before the last merge
    winner,    \* single-field specification: findWinner's result, 0 before
    changed,   \* single-field specification: the merge's return value
    mpc,       \* single-field specification: "input" or "merged"
    which,           \* aggregate specification: the handler being exercised
    controlHandler,  \* the ControlDataHandler object
    configHandler,   \* the ConfigDataHandler object
    phase,           \* the calls made since begin() (aggregate, push)
    lastRet,         \* what the last merge / fetch / push returned, FALSE before
    deviceConfig,    \* main.cpp: DeviceConfig deviceConfig
    controlData,     \* main.cpp: ControlData controlData
    authenticated,   \* APIClient::authenticated
    syncStatus,      \* ConnectionSyncManager::syncStatus
    clock,           \* the device's current timestamp
    payload,         \* the body of the last request sent to the cloud
    fetchPc,         \* fetchConfigFromServerTask: "idle" or "checked"
    syncPc,          \* syncConfigToServerTask: "idle" or "running"
    failedCount,     \* main.cpp: int failedCount
    deviceIsOnline,  \* main.cpp: bool deviceIsOnline
    initial_config_update,  \* main.cpp: bool initial_config_update
    lastSyncedConfig,       \* main.cpp: DeviceConfig lastSyncedConfig
    webDeviceConfig,        \* WebServer::deviceConfig
    taskPc,             \* device specifications: per task "none" (handle NULL),
                        \* "created" (xTaskCreate done) or "started"
    activeServerTasks,  \* main.cpp: volatile int activeServerTasks
    linkUp,             \* isWiFiConnected() && getWiFiMode() == WIFI_CLIENT_MODE
    webControlData,     \* WebServer::controlData
    timeSync,           \* clock specification: the time fields of syncStatus,
                        \* checkMillisOverflow's lastMillis, the millis() counter
    configMutex,        \* main.cpp: configMutex, "free" or the task holding it
    fetchStep,          \* fields fetchAndApplyServerConfig has copied to config
    sensorPass,         \* updateSensors: its position and the thresholds read
    relay,              \* main.cpp: RelayController relayController
    prefAutoMode,       \* NVS key "auto_mode": "unset", "true" or "false"
    httpResponse,       \* status code of the local web server's last answer
    taskReg             \* per task: the value of activeServerTasks it has
                        \* loaded for the "++" or "--" it is executing

mergeVars == <<kind, sync, pre, winner, changed, mpc>>
aggVars == <<which, controlHandler, configHandler, phase, lastRet>>
cloudVars == <<deviceConfig, controlData, authenticated, syncStatus, clock, payload>>
devVars == <<taskPc, activeServerTasks, linkUp, webControlData, timeSync,
             configMutex, fetchStep, sensorPass, relay, prefAutoMode,
             httpResponse, taskReg>>
taskVars == <<fetchPc, syncPc, failedCount, deviceIsOnline,
              initial_config_update, lastSyncedConfig, webDeviceConfig, devVars>>

vars == <<kind, sync, pre, winner, changed, mpc,
          which, controlHandler, configHandler, phase, lastRet,
          deviceConfig, controlData, authenticated, syncStatus, clock, payload,
          fetchPc, syncPc, failedCount, deviceIsOnline,
          initial_config_update, lastSyncedConfig, webDeviceConfig,
          taskPc, activeServerTasks, linkUp, webControlData, timeSync,
          configMutex, fetchStep, sensorPass, relay, prefAutoMode,
          httpResponse, taskReg>>

NoPayload == [to |-> "none"]

\* ConnectionSyncManager::ConnectionSyncManager
NewSyncStatus == [device_config_sync_status |-> TRUE, lastServerTimestamp |-> 0]

\* the cloud variables outside the cloud specifications
CloudIdle ==
    /\ deviceConfig = NewDeviceConfig
    /\ controlData = NewControlData
    /\ authenticated = FALSE
    /\ syncStatus = NewSyncStatus
    /\ clock = 0
    /\ payload = NoPayload

\* the background tasks main.cpp counts in activeServerTasks
DeviceTasks == {"telemetry", "controlFetch", "configFetch"}

\* the background tasks that take configMutex
LockTasks == {"controlFetch", "configFetch", "configSync"}

\* the time fields of ConnectionSyncManager::ConnectionSyncManager, with
\* lastMillis of checkMillisOverflow, the millis() counter, the overflow
\* count last saved, the milliseconds truly elapsed since the last
\* setTimestamp (or since boot), the last answer of getCurrentTimestamp, and
\* whether the device rebooted since the last setTimestamp
NewTimeSync ==
    [lastServerTimestamp |-> 0, millisAtSync |-> 0, overflowCount |-> 0,
     lastMillis |-> 0, millis |-> 0, saved |-> 0,
     elapsed |-> 0, stamp |-> 0, rebooted |-> FALSE]

\* updateSensors before its first pass
NewSensorPass == [pc |-> "idle", upperThreshold |-> 0, lowerThreshold |-> 0]

\* no task is inside an update of activeServerTasks
NoReg == [t \in LockTasks |-> 0]

\* the mutex variables outside the mutex specification
MutexIdle ==
    /\ configMutex = "free"
    /\ fetchStep = 0
    /\ sensorPass = NewSensorPass
    /\ taskReg = NoReg

\* RelayController::RelayController
NewRelay ==
    [pumpState |-> FALSE, currentMode |-> "AUTO", cloudCommand |-> FALSE,
     hardwareOverride |-> FALSE, autoModeEnabled |-> FALSE]

\* the relay variables outside the relay specification
RelayIdle ==
    /\ relay = NewRelay
    /\ prefAutoMode = "unset"
    /\ httpResponse = 0

\* the device variables outside the device and clock specifications
DevIdle ==
    /\ taskPc = [t \in DeviceTasks |-> "none"]
    /\ activeServerTasks = 0
    /\ linkUp = FALSE
    /\ webControlData = NewControlData
    /\ timeSync = NewTimeSync
    /\ MutexIdle
    /\ RelayIdle

\* the task variables outside the task specification
TaskIdle ==
    /\ DevIdle
    /\ fetchPc = "idle"
    /\ syncPc = "idle"
    /\ failedCount = 0
    /\ deviceIsOnline = FALSE
    /\ initial_config_update = FALSE
    /\ lastSyncedConfig = NewDeviceConfig
    /\ webDeviceConfig = NewDeviceConfig

\* the aggregate variables outside the aggregate specification
AggIdle ==
    /\ which = "none"
    /\ controlHandler = ControlBegin
    /\ configHandler = ConfigBegin
    /\ phase = "begin"
    /\ lastRet = FALSE

\* the single-field variables outside the single-field specification
MergeIdle ==
    /\ kind = "bool"
    /\ sync = ControlBegin.pumpSwitch
    /\ pre = sync
    /\ winner = 0
    /\ changed = FALSE
    /\ mpc = "input"

(***************************************************************************)
(* Single-field specification: the merge engine applied once to any Sync   *)
(* value of any of the three kinds.                                        *)
(***************************************************************************)
MergeInit ==
    /\ kind \in {"bool", "float", "string"}
    /\ sync \in SyncValue(ValuesOf(kind), TsVals)
    /\ pre = sync
    /\ winner = 0
    /\ changed = FALSE
    /\ mpc = "input"
    /\ AggIdle
    /\ CloudIdle
    /\ TaskIdle

MergeFieldRemembersMerge ==
    \* mutant: a field that was merged before lets SELF win whatever the triple
    /\ pre' = sync
    /\ winner' = IF mpc = "merged" THEN 3
                 ELSE FindWinner(sync.api_lastModified, sync.local_lastModified,
                                 sync.lastModified)
    /\ sync' = CopyWinner(sync, winner')
    /\ changed' = (sync'.value # sync.value)
    /\ mpc' = "merged"
    /\ UNCHANGED <<kind, aggVars, cloudVars, taskVars>>

\* mergeBool / mergeFloat / mergeString applied to the field
MergeField ==
    /\ pre' = sync
    /\ winner' = FindWinner(sync.api_lastModified, sync.local_lastModified,
                            sync.lastModified)
    /\ sync' = MergeOf(kind, sync).sync
    /\ changed' = MergeOf(kind, sync).changed
    /\ mpc' = "merged"
    /\ UNCHANGED <<kind, aggVars, cloudVars, taskVars>>

MergeNext == MergeField

SpecMerge == MergeInit /\ [][MergeNext]_vars


(***************************************************************************)
(* Aggregate specification: one of the two handlers, from begin(), under   *)
(* any sequence of calls of its public operations.  The two handlers are   *)
(* separate objects that share no state; which says which one the          *)
(* behaviour exercises.  phase records the calls made since begin():       *)
(*   "begin"       none                                                    *)
(*   "self"        exactly one updateSelf                                  *)
(*   "selfMerged"  one updateSelf and then one merge                       *)
(*   "merged"      any other sequence that ends with exactly one merge     *)
(*   "mergedAgain" any sequence that ends with two or more merges          *)
(*   "pumpSwitchPriority", "configUpdatePriority", "allPriority"           *)
(*                 any sequence that ends with that priority setter        *)
(*   "updated"     any other sequence                                      *)
(* The control updates are called with one timestamp for both fields, the  *)
(* config updates with one for the two thresholds and one for the rest.    *)
(***************************************************************************)
AggInit ==
    /\ which \in {"control", "config"}
    /\ controlHandler = ControlBegin
    /\ configHandler = ConfigBegin
    /\ phase = "begin"
    /\ lastRet = FALSE
    /\ MergeIdle
    /\ CloudIdle
    /\ TaskIdle

AfterMerge ==
    CASE phase = "self" -> "selfMerged"
      [] phase \in {"selfMerged", "merged", "mergedAgain"} -> "mergedAgain"
      [] OTHER -> "merged"

AfterUpdateSelf == IF phase = "begin" THEN "self" ELSE "updated"

CtlUpdateFromAPI ==
    /\ which = "control"
    /\ \E ps \in BOOLEAN, cu \in BOOLEAN, ts \in AggTs :
        controlHandler' = ControlUpdateFromAPI(controlHandler, ps, ts, cu, ts)
    /\ phase' = "updated"
    /\ UNCHANGED <<which, configHandler, lastRet, mergeVars, cloudVars, taskVars>>

CtlUpdateFromLocal ==
    /\ which = "control"
    /\ \E ps \in BOOLEAN, cu \in BOOLEAN, ts \in AggTs :
        controlHandler' = ControlUpdateFromLocal(controlHandler, ps, ts, cu, ts)
    /\ phase' = "updated"
    /\ UNCHANGED <<which, configHandler, lastRet, mergeVars, cloudVars, taskVars>>

CtlUpdateSelf ==
    /\ which = "control"
    /\ \E ps \in BOOLEAN, cu \in BOOLEAN, now \in AggTs :
        controlHandler' = ControlUpdateSelf(controlHandler, ps, cu, now)
    /\ phase' = AfterUpdateSelf
    /\ UNCHANGED <<which, configHandler, lastRet, mergeVars, cloudVars, taskVars>>

CtlMerge ==
    /\ which = "control"
    /\ controlHandler' = ControlMerge(controlHandler).handler
    /\ lastRet' = ControlMerge(controlHandler).changed
    /\ phase' = AfterMerge
    /\ UNCHANGED <<which, configHandler, mergeVars, cloudVars, taskVars>>

CtlSetPumpSwitchPriority ==
    /\ which = "control"
    /\ \E v \in BOOLEAN :
        controlHandler' = SetPumpSwitchPriority(controlHandler, v)
    /\ phase' = "pumpSwitchPriority"
    /\ UNCHANGED <<which, configHandler, lastRet, mergeVars, cloudVars, taskVars>>

CtlSetConfigUpdatePriority ==
    /\ which = "control"
    /\ \E v \in BOOLEAN :
        controlHandler' = SetConfigUpdatePriority(controlHandler, v)
    /\ phase' = "configUpdatePriority"
    /\ UNCHANGED <<which, configHandler, lastRet, mergeVars, cloudVars, taskVars>>

CfgUpdateFromAPI ==
    /\ which = "config"
    /\ \E v \in ConfigArgs, ts \in ConfigTsArgs :
        configHandler' = ConfigUpdateFromAPI(configHandler, v, ts)
    /\ phase' = "updated"
    /\ UNCHANGED <<which, controlHandler, lastRet, mergeVars, cloudVars, taskVars>>

CfgUpdateFromLocal ==
    /\ which = "config"
    /\ \E v \in ConfigArgs, ts \in ConfigTsArgs :
        configHandler' = ConfigUpdateFromLocal(configHandler, v, ts)
    /\ phase' = "updated"
    /\ UNCHANGED <<which, controlHandler, lastRet, mergeVars, cloudVars, taskVars>>

CfgUpdateSelf ==
    /\ which = "config"
    /\ \E v \in ConfigArgs, now \in AggTs :
        configHandler' = ConfigUpdateSelf(configHandler, v, now)
    /\ phase' = AfterUpdateSelf
    /\ UNCHANGED <<which, controlHandler, lastRet, mergeVars, cloudVars, taskVars>>

CfgMerge ==
    /\ which = "config"
    /\ configHandler' = ConfigMerge(configHandler).handler
    /\ lastRet' = ConfigMerge(configHandler).changed
    /\ phase' = AfterMerge
    /\ UNCHANGED <<which, controlHandler, mergeVars, cloudVars, taskVars>>

CfgSetAllPriority ==
    /\ which = "config"
    /\ configHandler' = ConfigSetAllPriority(configHandler)
    /\ phase' = "allPriority"
    /\ UNCHANGED <<which, controlHandler, lastRet, mergeVars, cloudVars, taskVars>>

AggNext ==
    \/ CtlUpdateFromAPI
    \/ CtlUpdateFromLocal
    \/ CtlUpdateSelf
    \/ CtlMerge
    \/ CtlSetPumpSwitchPriority
    \/ CtlSetConfigUpdatePriority
    \/ CfgUpdateFromAPI
    \/ CfgUpdateFromLocal
    \/ CfgUpdateSelf
    \/ CfgMerge
    \/ CfgSetAllPriority

SpecAggregate == AggInit /\ [][AggNext]_vars

(***************************************************************************)
(* Fetch specification: APIClient::fetchAndApplyServerConfig on the config *)
(* handler and the deviceConfig snapshot, or APIClient::fetchControl on    *)
(* the control handler and the controlData snapshot (which says which),    *)
(* from the state setup() leaves, under any sequence of responses.         *)
(***************************************************************************)
\* setup(): configHandler.updateSelf with the values stored in NVS or with
\* the defaults, and the five stored values copied into deviceConfig
SetupSelfArgs(stored, nvs) ==
    [f \in ConfigFields |->
        CASE f \in {"upperThreshold", "lowerThreshold", "tankHeight",
                    "tankWidth", "tankShape"} ->
                 IF stored THEN nvs[f] ELSE ConfigDefaults[f]
          [] f = "ipAddress" -> ""
          [] f = "forceUpdate" -> FALSE
          [] OTHER -> 0]

SetupDeviceConfig(stored, nvs) ==
    [f \in DeviceConfigFields |->
        IF stored /\ f \in {"upperThreshold", "lowerThreshold", "tankHeight",
                            "tankWidth", "tankShape"}
        THEN [value |-> nvs[f], lastModified |-> 0]
        ELSE NewDeviceConfig[f]]

SetupConfig ==
    \E stored \in BOOLEAN, nvs \in ConfigArgs, now \in AggTs :
        /\ configHandler = ConfigUpdateSelf(ConfigBegin, SetupSelfArgs(stored, nvs), now)
        /\ deviceConfig = SetupDeviceConfig(stored, nvs)

\* the values a config response carries: the defaults, ConfigB, and the
\* values of a default-constructed DeviceConfig
ResponseValues ==
    {[f \in PayloadFields |->
        IF f = "sensorFilter" THEN DEFAULT_SENSOR_FILTER ELSE ConfigDefaults[f]],
     [f \in PayloadFields |->
        IF f = "sensorFilter" THEN FALSE ELSE ConfigB[f]],
     [f \in PayloadFields |-> NewDeviceConfig[f].value]}

\* the timestamps a nested config response carries: one for all its fields
ResponseStamps == {[f \in PayloadFields |-> t] : t \in AggTs}

RespHttpFail == [http |-> "fail", json |-> "ok", container |-> FALSE, fields |-> <<>>]
RespBadJson == [http |-> "ok", json |-> "bad", container |-> FALSE, fields |-> <<>>]
RespNoContainer == [http |-> "ok", json |-> "ok", container |-> FALSE, fields |-> <<>>]

\* a parsable response whose container carries the fields in present, all
\* in the given form
RespDoc(form, present, v, ts, defaults) ==
    [http |-> "ok", json |-> "ok", container |-> TRUE,
     fields |-> [f \in DOMAIN v |->
                    IF f \in present
                    THEN [form |-> form, value |-> v[f],
                          lastModified |-> IF form = "nested" THEN ts[f] ELSE 0]
                    ELSE [form |-> "absent", value |-> defaults[f],
                          lastModified |-> 0]]]

\* responses that carry every field
CompleteConfigResponses ==
    {RespDoc("nested", PayloadFields, v, ts, ParseDefaults) :
        v \in ResponseValues, ts \in ResponseStamps}
    \cup {RespDoc("direct", PayloadFields, v, ts, ParseDefaults) :
        v \in ResponseValues, ts \in ResponseStamps}

\* responses whose container lacks fields: all of them, all but
\* upperThreshold, or upperThreshold alone
PartialConfigResponses ==
    {RespDoc("nested", present, v, ts, ParseDefaults) :
        present \in {{}, {"upperThreshold"}, PayloadFields \ {"upperThreshold"}},
        v \in ResponseValues \ {[f \in PayloadFields |-> NewDeviceConfig[f].value]},
        ts \in ResponseStamps}

FailedResponses == {RespHttpFail, RespBadJson, RespNoContainer}

ConfigResponses ==
    FailedResponses \cup CompleteConfigResponses \cup PartialConfigResponses

ControlDefaults == [pumpSwitch |-> FALSE, config_update |-> FALSE]

CompleteControlResponses ==
    {RespDoc(form, {"pumpSwitch", "config_update"},
             [pumpSwitch |-> ps, config_update |-> cu],
             [pumpSwitch |-> t, config_update |-> t], ControlDefaults) :
        form \in {"nested", "direct"}, ps \in BOOLEAN, cu \in BOOLEAN,
        t \in AggTs}

PartialControlResponses ==
    {RespDoc("nested", present,
             [pumpSwitch |-> TRUE, config_update |-> TRUE],
             [pumpSwitch |-> t, config_update |-> t], ControlDefaults) :
        present \in {{}, {"pumpSwitch"}, {"config_update"}}, t \in AggTs}

ControlResponses ==
    FailedResponses \cup CompleteControlResponses \cup PartialControlResponses

FetchInit ==
    /\ which \in {"config", "control"}
    /\ controlHandler = ControlBegin
    /\ SetupConfig
    /\ controlData = NewControlData
    /\ phase = "begin"
    /\ lastRet = FALSE
    /\ authenticated \in BOOLEAN
    /\ syncStatus \in {[NewSyncStatus EXCEPT !.lastServerTimestamp = t] : t \in AggTs}
    /\ clock = syncStatus.lastServerTimestamp
    /\ payload = NoPayload
    /\ MergeIdle
    /\ TaskIdle

\* ConnectionSyncManager::isTimeSynced
IsTimeSynced == syncStatus.lastServerTimestamp > 0

\* the values ConnectionSyncManager::getCurrentTimestamp can return: the
\* time does not go back
CurrentTimestamps == {t \in AggTs : t >= clock}

\* APIClient::fetchAndApplyServerConfig(deviceConfig) with response resp
FetchConfig(resp) ==
    /\ which = "config"
    /\ \E now \in CurrentTimestamps :
        LET r == APIFetchConfig(configHandler, deviceConfig, resp,
                                authenticated, IsTimeSynced, now)
        IN  /\ configHandler' = r.handler
            /\ deviceConfig' = r.config
            /\ lastRet' = r.ok
            /\ clock' = now
    /\ UNCHANGED <<which, controlHandler, phase, controlData, authenticated,
                   syncStatus, payload, mergeVars, taskVars>>

\* APIClient::fetchControl(controlData) with response resp
FetchControl(resp) ==
    /\ which = "control"
    /\ \E now \in CurrentTimestamps :
        LET r == APIFetchControl(controlHandler, controlData, resp,
                                 authenticated, IsTimeSynced, now)
        IN  /\ controlHandler' = r.handler
            /\ controlData' = r.control
            /\ lastRet' = r.ok
            /\ clock' = now
    /\ UNCHANGED <<which, configHandler, phase, deviceConfig, authenticated,
                   syncStatus, payload, mergeVars, taskVars>>

FetchNext ==
    \/ \E resp \in ConfigResponses : FetchConfig(resp)
    \/ \E resp \in ControlResponses : FetchControl(resp)

SpecFetch == FetchInit /\ [][FetchNext]_vars

(***************************************************************************)
(* Push specification: APIClient::sendConfigWithPriority on any            *)
(* deviceConfig snapshot and APIClient::uploadControl on any controlData   *)
(* snapshot, under any sequence of pushes and outcomes of the POST.        *)
(* phase records whether setAllPriority() preceded the push: "begin",      *)
(* "priority" (setAllPriority called), "pushed", "priorityPushed".         *)
(***************************************************************************)
\* snapshots a sequence of fetches can have left: the two thresholds carry
\* one timestamp, the other fields another
PushDeviceConfigs ==
    {[f \in DeviceConfigFields |->
        IF f \in PayloadFields
        THEN [value |-> v[f], lastModified |-> ts[f]]
        ELSE NewDeviceConfig[f]] :
        v \in ResponseValues,
        ts \in {[f \in PayloadFields |->
                   IF f \in {"upperThreshold", "lowerThreshold"} THEN t1 ELSE t2] :
                   t1 \in AggTs, t2 \in AggTs}}

PushControlDatas ==
    {[pumpSwitch |-> [value |-> ps, lastModified |-> t1],
      config_update |-> [value |-> cu, lastModified |-> t2]] :
        ps \in BOOLEAN, cu \in BOOLEAN, t1 \in AggTs, t2 \in AggTs}

\* outcomes of the POST of a config: no 2xx answer, an unparsable answer,
\* "success" false, or "success" true with the server's timestamp
PostOutcomes ==
    {[http |-> "fail", json |-> "ok", success |-> FALSE, timestamp |-> 0],
     [http |-> "ok", json |-> "bad", success |-> FALSE, timestamp |-> 0],
     [http |-> "ok", json |-> "ok", success |-> FALSE, timestamp |-> 0]}
    \cup {[http |-> "ok", json |-> "ok", success |-> TRUE, timestamp |-> t] :
            t \in AggTs}

PushInit ==
    /\ which \in {"config", "control"}
    /\ controlHandler = ControlBegin
    /\ configHandler = ConfigBegin
    /\ deviceConfig \in PushDeviceConfigs
    /\ controlData \in PushControlDatas
    /\ which = "config" => controlData = NewControlData
    /\ which = "control" => deviceConfig = NewDeviceConfig
    /\ phase = "begin"
    /\ lastRet = FALSE
    /\ authenticated \in BOOLEAN
    /\ syncStatus \in {[NewSyncStatus EXCEPT !.device_config_sync_status = b] :
                          b \in BOOLEAN}
    /\ clock = 0
    /\ payload = NoPayload
    /\ MergeIdle
    /\ TaskIdle

\* APIClient::sendConfigWithPriority(deviceConfig) with POST outcome post
PushConfig(post) ==
    /\ which = "config"
    /\ IF ~authenticated
       THEN /\ lastRet' = FALSE
            /\ UNCHANGED <<deviceConfig, syncStatus, payload>>
       ELSE LET r == ManagerSendConfigWithPriority(deviceConfig, post)
            IN  /\ payload' = [to |-> "config",
                               body |-> BuildConfigPayload(deviceConfig, TRUE)]
                /\ deviceConfig' = r.config
                /\ lastRet' = r.ok
                /\ syncStatus' = IF r.ok
                                 THEN [syncStatus EXCEPT
                                          !.device_config_sync_status = TRUE]
                                 ELSE syncStatus
    /\ phase' = IF phase \in {"priority", "priorityPushed"} THEN "priorityPushed"
                                                            ELSE "pushed"
    /\ UNCHANGED <<which, controlHandler, configHandler, controlData,
                   authenticated, clock, mergeVars, taskVars>>

\* APIClient::uploadControl(controlData); ok says whether the POST got a 2xx
PushControl(ok) ==
    /\ which = "control"
    /\ IF ~authenticated
       THEN /\ lastRet' = FALSE
            /\ UNCHANGED payload
       ELSE /\ payload' = [to |-> "control",
                           body |-> BuildControlPayload(controlData)]
            /\ lastRet' = ok
    /\ phase' = "pushed"
    /\ UNCHANGED <<which, controlHandler, configHandler, deviceConfig,
                   controlData, authenticated, syncStatus, clock, mergeVars,
                   taskVars>>

\* configHandler.setAllPriority()
PushSetAllPriority ==
    /\ which = "config"
    /\ phase = "begin"
    /\ configHandler' = ConfigSetAllPriority(configHandler)
    /\ phase' = "priority"
    /\ UNCHANGED <<which, controlHandler, lastRet, cloudVars, mergeVars, taskVars>>

PushNext ==
    \/ \E post \in PostOutcomes : PushConfig(post)
    \/ \E ok \in BOOLEAN : PushControl(ok)
    \/ PushSetAllPriority

SpecPush == PushInit /\ [][PushNext]_vars

(***************************************************************************)
(* Task specification: the periodic config fetch (loop(), then             *)
(* fetchConfigFromServerTask), the app's POST of a config to the device's  *)
(* web server, and syncConfigToServerTask, from the state setup() leaves   *)
(* when the boot-time fetch did not succeed.  The fetch task is two steps: *)
(* its checks, made before it takes configMutex, and the block it runs     *)
(* holding configMutex.  The web handler takes no mutex and runs in the    *)
(* web server's own task, so it can run between the two.                   *)
(***************************************************************************)
\* main.cpp
MAX_CONCURRENT_SERVER_TASKS == 2

\* "if (failedCount >= 10)" of the tasks
FailedCountLimit == 10

\* activeServerTasks: each running task has incremented it once
ActiveServerTasks ==
    (IF fetchPc = "idle" THEN 0 ELSE 1) + (IF syncPc = "idle" THEN 0 ELSE 1)

\* responses of the cloud in the task specification
TaskResponses ==
    {RespHttpFail}
    \cup {RespDoc("nested", PayloadFields, v, ts, ParseDefaults) :
            v \in ResponseValues \ {[f \in PayloadFields |-> NewDeviceConfig[f].value]},
            ts \in ResponseStamps}

\* values the app posts
WebArgs == ResponseValues \ {[f \in PayloadFields |-> NewDeviceConfig[f].value]}

TaskInit ==
    /\ which = "tasks"
    /\ controlHandler = ControlBegin
    /\ SetupConfig
    /\ controlData = NewControlData
    /\ phase = "begin"
    /\ lastRet = FALSE
    /\ authenticated \in BOOLEAN
    /\ syncStatus \in [device_config_sync_status : BOOLEAN,
                       lastServerTimestamp : AggTs]
    /\ clock = syncStatus.lastServerTimestamp
    /\ payload = NoPayload
    /\ fetchPc = "idle"
    /\ syncPc = "idle"
    /\ failedCount = 0
    /\ deviceIsOnline = FALSE
    /\ initial_config_update = FALSE
    /\ lastSyncedConfig = deviceConfig
    /\ webDeviceConfig = NewDeviceConfig
    /\ MergeIdle
    /\ DevIdle

\* "failedCount++; if (failedCount >= 10) deviceIsOnline = false;"
CountFailure ==
    /\ failedCount' = failedCount + 1
    /\ deviceIsOnline' = IF failedCount + 1 >= FailedCountLimit THEN FALSE
                                                                ELSE deviceIsOnline

\* finalizeNTP(timestamp)
FinalizeNTP ==
    /\ which = "tasks"
    /\ \E timestamp \in CurrentTimestamps \ {0} :
        /\ syncStatus' = [syncStatus EXCEPT !.lastServerTimestamp = timestamp]
        /\ clock' = timestamp
    /\ deviceIsOnline' = TRUE
    /\ failedCount' = 0
    /\ initial_config_update' = TRUE
    /\ UNCHANGED <<aggVars, deviceConfig, controlData, authenticated, payload,
                   fetchPc, syncPc, lastSyncedConfig, webDeviceConfig, mergeVars, devVars>>

\* loop() finds the config check due and calls fetchConfigFromServer(); the
\* task starts and runs up to its xSemaphoreTake.  connected is what
\* isWiFiConnected() && getWiFiMode() == WIFI_CLIENT_MODE gives the task.
ConfigFetchTaskCheck ==
    /\ which = "tasks"
    /\ IsTimeSynced /\ initial_config_update
    /\ fetchPc = "idle"
    /\ ActiveServerTasks < MAX_CONCURRENT_SERVER_TASKS
    /\ \E connected \in BOOLEAN :
        IF ~deviceIsOnline
        THEN UNCHANGED <<fetchPc, failedCount, deviceIsOnline>>
        ELSE IF ~connected \/ ~authenticated
        THEN CountFailure /\ UNCHANGED fetchPc
        ELSE IF ~syncStatus.device_config_sync_status
        THEN UNCHANGED <<fetchPc, failedCount, deviceIsOnline>>
        ELSE fetchPc' = "checked" /\ UNCHANGED <<failedCount, deviceIsOnline>>
    /\ UNCHANGED <<aggVars, cloudVars, syncPc, initial_config_update,
                   lastSyncedConfig, webDeviceConfig, mergeVars, devVars>>

\* fetchConfigFromServerTask from xSemaphoreTake to vTaskDelete.  differ is
\* what configHandler.valuesDifferFromAPI() answers: the function is called
\* here but defined nowhere in the sources, so either answer is allowed.
ConfigFetchTaskRun(resp) ==
    /\ which = "tasks"
    /\ fetchPc = "checked"
    /\ \E now \in CurrentTimestamps, differ \in BOOLEAN :
        LET r == APIFetchConfig(configHandler, deviceConfig, resp,
                                authenticated, IsTimeSynced, now)
            valuesChanged == ValuesChanged(r.config, deviceConfig)
        IN  /\ clock' = now
            /\ configHandler' = r.handler
            /\ deviceConfig' = r.config
            /\ lastRet' = r.ok
            /\ IF r.ok
               THEN /\ failedCount' = 0
                    /\ initial_config_update' = FALSE
                    /\ syncStatus' =
                         IF differ
                         THEN [syncStatus EXCEPT !.device_config_sync_status = FALSE]
                         ELSE syncStatus
                    /\ lastSyncedConfig' = IF valuesChanged THEN r.config
                                                            ELSE lastSyncedConfig
                    /\ webDeviceConfig' = IF valuesChanged THEN r.config
                                                           ELSE webDeviceConfig
                    /\ UNCHANGED deviceIsOnline
               ELSE /\ CountFailure
                    /\ UNCHANGED <<initial_config_update, syncStatus,
                                   lastSyncedConfig, webDeviceConfig>>
    /\ fetchPc' = "idle"
    /\ UNCHANGED <<which, controlHandler, phase, controlData, authenticated,
                   payload, syncPc, mergeVars, devVars>>

\* WebServer::handlePostDeviceConfig with a body that carries every field
\* with the values v; priority says whether a lastModified of the body is 0
WebPostConfig(v, priority) ==
    /\ which = "tasks"
    /\ IF (\E f \in PayloadFields : v[f] # webDeviceConfig[f].value) /\ priority
       THEN /\ \E now \in CurrentTimestamps :
                /\ clock' = now
                /\ webDeviceConfig' =
                     [f \in DeviceConfigFields |->
                        IF f \in PayloadFields
                        THEN [value |-> v[f], lastModified |-> now]
                        ELSE webDeviceConfig[f]]
            /\ syncStatus' = [syncStatus EXCEPT !.device_config_sync_status = FALSE]
            /\ syncPc' = IF syncPc = "idle"
                            /\ ActiveServerTasks < MAX_CONCURRENT_SERVER_TASKS
                         THEN "running" ELSE syncPc
       ELSE UNCHANGED <<clock, webDeviceConfig, syncStatus, syncPc>>
    /\ UNCHANGED <<aggVars, deviceConfig, controlData, authenticated, payload,
                   fetchPc, failedCount, deviceIsOnline, initial_config_update,
                   lastSyncedConfig, mergeVars, devVars>>

\* syncConfigToServerTask
ConfigSyncTask(post) ==
    /\ which = "tasks"
    /\ syncPc = "running"
    /\ \E connected \in BOOLEAN :
        IF connected /\ authenticated /\ IsTimeSynced
           /\ ~syncStatus.device_config_sync_status
           /\ ValuesChanged(deviceConfig, lastSyncedConfig)
        THEN LET r == ManagerSendConfigWithPriority(deviceConfig, post)
             IN  /\ payload' = [to |-> "config",
                                body |-> BuildConfigPayload(deviceConfig, TRUE)]
                 /\ deviceConfig' = r.config
                 /\ lastRet' = r.ok
                 /\ IF r.ok
                    THEN /\ syncStatus' = [syncStatus EXCEPT
                                              !.device_config_sync_status = TRUE]
                         /\ lastSyncedConfig' = r.config
                         /\ webDeviceConfig' = r.config
                         /\ UNCHANGED <<failedCount, deviceIsOnline>>
                    ELSE /\ CountFailure
                         /\ UNCHANGED <<syncStatus, lastSyncedConfig,
                                        webDeviceConfig>>
        ELSE UNCHANGED <<payload, deviceConfig, lastRet, syncStatus,
                         lastSyncedConfig, webDeviceConfig, failedCount,
                         deviceIsOnline>>
    /\ syncPc' = "idle"
    /\ UNCHANGED <<which, controlHandler, configHandler, phase, controlData,
                   authenticated, clock, fetchPc, initial_config_update,
                   mergeVars, devVars>>

TaskNext ==
    \/ FinalizeNTP
    \/ ConfigFetchTaskCheck
    \/ \E resp \in TaskResponses : ConfigFetchTaskRun(resp)
    \/ \E v \in WebArgs, priority \in BOOLEAN : WebPostConfig(v, priority)
    \/ \E post \in PostOutcomes : ConfigSyncTask(post)

SpecTasks == TaskInit /\ [][TaskNext]_vars

\* The tasks run to completion once created and loop() keeps running: weak
\* fairness of the device's own steps.  The app's POST and the time sync are
\* the environment's and carry no fairness.
TaskFairness ==
    /\ WF_vars(ConfigFetchTaskCheck)
    /\ WF_vars(\E resp \in TaskResponses : ConfigFetchTaskRun(resp))
    /\ WF_vars(\E post \in PostOutcomes : ConfigSyncTask(post))

SpecTasksFair == TaskInit /\ [][TaskNext]_vars /\ TaskFairness

(***************************************************************************)
(* Device specifications: loop() with its periodic launchers and its time  *)
(* sync retry, the background tasks uploadTelemetryTask,                   *)
(* fetchControlDataTask and fetchConfigFromServerTask, and the web         *)
(* server's POST handlers for control data and for the timestamp, from the *)
(* state setup() leaves when the boot-time sync failed.  A task is three   *)
(* steps: its creation by the launcher, its start (activeServerTasks++ and *)
(* the checks before any network I/O), and the rest of its body.           *)
(* The timestamps are 0 (none), 1 (not above MIN_VALID_TIMESTAMP) and      *)
(* 2 (valid); getCurrentTimestamp() answers the last synced timestamp.     *)
(***************************************************************************)
\* syncWithInternet: "const uint64_t MIN_VALID_TIMESTAMP", in model units
MIN_VALID_TIMESTAMP == 1

\* what the time endpoint or the app can send: nothing, an invalid time, a
\* valid time
ServerTimes == 0 .. (MIN_VALID_TIMESTAMP + 1)

\* failedCount is not counted beyond this value
MaxFailedCount == FailedCountLimit + 3

\* "failedCount++; if (failedCount >= 10) deviceIsOnline = false;"
FailureCounted(count) == IF count < MaxFailedCount THEN count + 1 ELSE count

OnlineAfterFailure(count, online) ==
    IF FailureCounted(count) >= FailedCountLimit THEN FALSE ELSE online

\* tasks created and not yet terminated
TasksInFlight == {t \in DeviceTasks : taskPc[t] # "none"}

\* the launchers' two checks: the task's handle is NULL and fewer than
\* MAX_CONCURRENT_SERVER_TASKS tasks are counted
MayCreate(t) ==
    taskPc[t] = "none" /\ activeServerTasks < MAX_CONCURRENT_SERVER_TASKS

\* ConnectionSyncManager::setTimestamp
SetTimestamp(status, timestamp) ==
    [status EXCEPT !.lastServerTimestamp = timestamp]

\* loop: "const unsigned long NTP_RETRY_INTERVAL", the unit of clock in the
\* device specifications
NTP_RETRY_INTERVAL == 1

SyncWithInternetStricter(auth, link, httpOk, serverTime) ==
    \* mutant: the sanity check asks for more than MIN_VALID_TIMESTAMP
    link /\ auth /\ httpOk /\ serverTime # 0
         /\ serverTime > MIN_VALID_TIMESTAMP + 1

SyncWithInternetAcceptsAny(auth, link, httpOk, serverTime) ==
    \* mutant: the sanity check of the synced timestamp is left out
    link /\ auth /\ httpOk /\ serverTime # 0

\* syncWithInternet with APIClient::syncTimeWithServer: whether finalizeNTP
\* is reached.  serverTime is the response's "serverTime", 0 when it has none.
SyncWithInternet(auth, link, httpOk, serverTime) ==
    link /\ auth /\ httpOk /\ serverTime # 0 /\ serverTime > MIN_VALID_TIMESTAMP

\* whether APIClient::syncTimeWithServer stores the server's time
TimeStored(auth, link, httpOk, serverTime) ==
    link /\ auth /\ httpOk /\ serverTime # 0

DeviceInit ==
    /\ which = "device"
    /\ controlHandler = ControlBegin
    /\ configHandler = ConfigUpdateSelf(ConfigBegin, ConfigDefaults, 0)
    /\ deviceConfig = NewDeviceConfig
    /\ controlData = NewControlData
    /\ phase = "begin"
    /\ lastRet = FALSE
    /\ authenticated \in BOOLEAN
    /\ syncStatus = NewSyncStatus
    /\ clock = 0
    /\ payload = NoPayload
    /\ fetchPc = "idle"
    /\ syncPc = "idle"
    /\ failedCount = 0
    /\ deviceIsOnline = FALSE
    /\ initial_config_update = FALSE
    /\ lastSyncedConfig = deviceConfig
    /\ webDeviceConfig = NewDeviceConfig
    /\ taskPc = [t \in DeviceTasks |-> "none"]
    /\ activeServerTasks = 0
    /\ linkUp \in BOOLEAN
    /\ webControlData = NewControlData
    /\ timeSync = NewTimeSync
    /\ MutexIdle
    /\ RelayIdle
    /\ MergeIdle

\* the variables no device action writes
devFrame == <<which, phase, lastRet, authenticated, fetchPc, syncPc,
              timeSync, configMutex, fetchStep, sensorPass, relay,
              prefAutoMode, httpResponse, taskReg, mergeVars>>

\* the WiFi link comes up in client mode, or goes down
LinkChange ==
    /\ which = "device"
    /\ linkUp' = ~linkUp
    /\ UNCHANGED <<devFrame, clock, controlHandler, configHandler, deviceConfig,
                   controlData, syncStatus, payload, failedCount, deviceIsOnline,
                   initial_config_update, lastSyncedConfig, webDeviceConfig,
                   taskPc, activeServerTasks, webControlData>>

\* loop(): millis() advances; clock is millis() - lastNTPRetry in retry
\* intervals, counted up to one interval
Tick ==
    /\ which = "device"
    /\ clock < NTP_RETRY_INTERVAL
    /\ clock' = clock + 1
    /\ UNCHANGED <<devFrame, controlHandler, configHandler, deviceConfig,
                   controlData, syncStatus, payload, failedCount, deviceIsOnline,
                   initial_config_update, lastSyncedConfig, webDeviceConfig,
                   taskPc, activeServerTasks, linkUp, webControlData>>

\* loop(), "PERIODIC NTP RETRY WHEN OFFLINE": the retry interval has passed
\* and syncWithInternet() is called; httpOk and serverTime are the answer of
\* the time endpoint
NTPRetry(httpOk, serverTime) ==
    /\ which = "device"
    /\ ~deviceIsOnline /\ linkUp
    /\ clock >= NTP_RETRY_INTERVAL
    /\ clock' = 0
    /\ IF SyncWithInternet(authenticated, linkUp, httpOk, serverTime)
       THEN /\ syncStatus' = SetTimestamp(syncStatus, serverTime)
            /\ deviceIsOnline' = TRUE
            /\ failedCount' = 0
            /\ initial_config_update' = TRUE
       ELSE /\ syncStatus' = IF TimeStored(authenticated, linkUp, httpOk, serverTime)
                             THEN SetTimestamp(syncStatus, serverTime)
                             ELSE syncStatus
            /\ UNCHANGED <<deviceIsOnline, failedCount, initial_config_update>>
    /\ UNCHANGED <<devFrame, controlHandler, configHandler, deviceConfig,
                   controlData, payload, lastSyncedConfig, webDeviceConfig,
                   taskPc, activeServerTasks, linkUp, webControlData>>

\* WebServer::handlePostTimestamp; newTimestamp is the body's "timestamp"
\* after the conversion to milliseconds, 0 for a body the handler rejects
HandlePostTimestamp(newTimestamp) ==
    /\ which = "device"
    /\ syncStatus' = IF newTimestamp = 0 THEN syncStatus
                                         ELSE SetTimestamp(syncStatus, newTimestamp)
    /\ UNCHANGED <<devFrame, clock, controlHandler, configHandler, deviceConfig,
                   controlData, payload, failedCount, deviceIsOnline,
                   initial_config_update, lastSyncedConfig, webDeviceConfig,
                   taskPc, activeServerTasks, linkUp, webControlData>>

\* loop(): a launcher's interval has passed; uploadTelemetry(),
\* fetchControlData() or, when the time is synced and initial_config_update
\* is set, fetchConfigFromServer()
Launch(t) ==
    /\ which = "device"
    /\ linkUp
    /\ t = "configFetch" => IsTimeSynced /\ initial_config_update
    /\ taskPc' = IF MayCreate(t) THEN [taskPc EXCEPT ![t] = "created"] ELSE taskPc
    /\ UNCHANGED <<devFrame, clock, controlHandler, configHandler, deviceConfig,
                   controlData, syncStatus, payload, failedCount, deviceIsOnline,
                   initial_config_update, lastSyncedConfig, webDeviceConfig,
                   activeServerTasks, linkUp, webControlData>>

\* the first statements of a task: activeServerTasks++, the offline check,
\* the link and authentication check and, in the config fetch task, the
\* pending-sync check; a task that fails one of them terminates
TaskStart(t) ==
    /\ which = "device"
    /\ taskPc[t] = "created"
    /\ IF ~deviceIsOnline
       THEN /\ taskPc' = [taskPc EXCEPT ![t] = "none"]
            /\ UNCHANGED <<activeServerTasks, failedCount, deviceIsOnline>>
       ELSE IF ~linkUp \/ ~authenticated
       THEN /\ taskPc' = [taskPc EXCEPT ![t] = "none"]
            /\ failedCount' = FailureCounted(failedCount)
            /\ deviceIsOnline' = OnlineAfterFailure(failedCount, deviceIsOnline)
            /\ UNCHANGED activeServerTasks
       ELSE IF t = "configFetch" /\ ~syncStatus.device_config_sync_status
       THEN /\ taskPc' = [taskPc EXCEPT ![t] = "none"]
            /\ UNCHANGED <<activeServerTasks, failedCount, deviceIsOnline>>
       ELSE /\ taskPc' = [taskPc EXCEPT ![t] = "started"]
            /\ activeServerTasks' = activeServerTasks + 1
            /\ UNCHANGED <<failedCount, deviceIsOnline>>
    /\ UNCHANGED <<devFrame, clock, controlHandler, configHandler, deviceConfig,
                   controlData, syncStatus, payload, initial_config_update,
                   lastSyncedConfig, webDeviceConfig, linkUp, webControlData>>

\* uploadTelemetryTask from apiClient.uploadTelemetry on; ok is its result
UploadTelemetryTaskRun(ok) ==
    /\ which = "device"
    /\ taskPc.telemetry = "started"
    /\ payload' = [to |-> "telemetry"]
    /\ failedCount' = IF ok THEN 0 ELSE FailureCounted(failedCount)
    /\ deviceIsOnline' = IF ok THEN deviceIsOnline
                               ELSE OnlineAfterFailure(failedCount, deviceIsOnline)
    /\ taskPc' = [taskPc EXCEPT !.telemetry = "none"]
    /\ activeServerTasks' = activeServerTasks - 1
    /\ UNCHANGED <<devFrame, clock, controlHandler, configHandler, deviceConfig,
                   controlData, syncStatus, initial_config_update,
                   lastSyncedConfig, webDeviceConfig, linkUp, webControlData>>

\* the answers of the cloud the device specifications draw from: a failed
\* GET, or a complete document stamped 1
DeviceControlResponses ==
    {RespHttpFail} \cup
    {RespDoc("nested", {"pumpSwitch", "config_update"},
             [pumpSwitch |-> ps, config_update |-> cu],
             [pumpSwitch |-> 1, config_update |-> 1], ControlDefaults) :
        ps \in {FALSE}, cu \in BOOLEAN}

DeviceConfigResponses ==
    {RespHttpFail} \cup
    {RespDoc("nested", PayloadFields,
             [f \in PayloadFields |->
                IF f = "sensorFilter" THEN FALSE ELSE ConfigB[f]],
             [f \in PayloadFields |-> 1], ParseDefaults)}

\* ConnectionSyncManager::getCurrentTimestamp in the device specifications
DeviceNow == syncStatus.lastServerTimestamp

\* the ControlData of "resetControl" in fetchControlDataTask
ResetControl(h) ==
    [pumpSwitch |-> [value |-> h.pumpSwitch.value,
                     lastModified |-> h.pumpSwitch.lastModified],
     config_update |-> [value |-> FALSE, lastModified |-> 0]]

\* fetchControlDataTask from apiClient.fetchControl on.  resp answers the
\* control GET, cresp the config GET of a requested refresh, differ is what
\* configHandler.valuesDifferFromAPI() answers (called here, defined nowhere
\* in the sources).  The result of the closing uploadControl is not used.
FetchControlDataTaskRun(resp, cresp, differ) ==
    /\ which = "device"
    /\ taskPc.controlFetch = "started"
    /\ LET r == APIFetchControl(controlHandler, NewControlData, resp,
                                authenticated, IsTimeSynced, DeviceNow)
           c == APIFetchConfig(configHandler, deviceConfig, cresp,
                               authenticated, IsTimeSynced, DeviceNow)
           valuesChanged == ValuesChanged(c.config, deviceConfig)
       IN  IF ~r.ok
           THEN /\ failedCount' = FailureCounted(failedCount)
                /\ deviceIsOnline' = OnlineAfterFailure(failedCount, deviceIsOnline)
                /\ payload' = [to |-> "controlFetch"]
                /\ UNCHANGED <<controlHandler, configHandler, deviceConfig,
                               controlData, syncStatus, initial_config_update,
                               webDeviceConfig, webControlData>>
           ELSE /\ failedCount' = 0
                /\ controlData' = r.control
                /\ webControlData' = r.control
                /\ UNCHANGED deviceIsOnline
                /\ IF r.control.config_update.value /\ c.ok
                   THEN /\ configHandler' = c.handler
                        /\ deviceConfig' = c.config
                        /\ initial_config_update' = FALSE
                        /\ syncStatus' =
                             IF differ
                             THEN [syncStatus EXCEPT
                                      !.device_config_sync_status = FALSE]
                             ELSE syncStatus
                        /\ webDeviceConfig' = IF valuesChanged THEN c.config
                                                               ELSE webDeviceConfig
                        /\ controlHandler' = SetConfigUpdatePriority(r.handler, FALSE)
                        /\ payload' = [to |-> "control",
                                       body |-> BuildControlPayload(
                                                   ResetControl(controlHandler'))]
                   ELSE /\ controlHandler' = r.handler
                        /\ payload' = IF r.control.config_update.value
                                      THEN [to |-> "configFetch"]
                                      ELSE [to |-> "controlFetch"]
                        /\ UNCHANGED <<configHandler, deviceConfig, syncStatus,
                                       initial_config_update, webDeviceConfig>>
    /\ taskPc' = [taskPc EXCEPT !.controlFetch = "none"]
    /\ activeServerTasks' = activeServerTasks - 1
    /\ UNCHANGED <<devFrame, clock, lastSyncedConfig, linkUp>>

\* fetchConfigFromServerTask from xSemaphoreTake on; resp answers the GET
FetchConfigFromServerTaskRun(resp, differ) ==
    /\ which = "device"
    /\ taskPc.configFetch = "started"
    /\ LET c == APIFetchConfig(configHandler, deviceConfig, resp,
                               authenticated, IsTimeSynced, DeviceNow)
           valuesChanged == ValuesChanged(c.config, deviceConfig)
       IN  /\ configHandler' = c.handler
           /\ deviceConfig' = c.config
           /\ payload' = [to |-> "configFetch"]
           /\ IF c.ok
              THEN /\ failedCount' = 0
                   /\ initial_config_update' = FALSE
                   /\ syncStatus' =
                        IF differ
                        THEN [syncStatus EXCEPT !.device_config_sync_status = FALSE]
                        ELSE syncStatus
                   /\ lastSyncedConfig' = IF valuesChanged THEN c.config
                                                           ELSE lastSyncedConfig
                   /\ webDeviceConfig' = IF valuesChanged THEN c.config
                                                          ELSE webDeviceConfig
                   /\ UNCHANGED deviceIsOnline
              ELSE /\ failedCount' = FailureCounted(failedCount)
                   /\ deviceIsOnline' = OnlineAfterFailure(failedCount, deviceIsOnline)
                   /\ UNCHANGED <<initial_config_update, syncStatus,
                                  lastSyncedConfig, webDeviceConfig>>
    /\ taskPc' = [taskPc EXCEPT !.configFetch = "none"]
    /\ activeServerTasks' = activeServerTasks - 1
    /\ UNCHANGED <<devFrame, clock, controlHandler, controlData, linkUp, webControlData>>

\* WebServer::handlePostControl on a body that carries pumpSwitch with value
\* ps and lastModified ts: the WebServer's ControlData afterwards and whether
\* apiClient->uploadControl sends it
WebPostControl(control, auth, ps, ts, now) ==
    IF ps = control.pumpSwitch.value
    THEN [control |-> control, upload |-> FALSE]
    ELSE IF ts = 0
    THEN [control |-> [control EXCEPT
                          !.pumpSwitch = [value |-> ps, lastModified |-> now]],
          upload |-> auth]
    ELSE IF ts > control.pumpSwitch.lastModified
    THEN [control |-> [control EXCEPT
                          !.pumpSwitch = [value |-> ps, lastModified |-> ts]],
          upload |-> auth]
    ELSE [control |-> control, upload |-> FALSE]

\* WebServer::handlePostControl
HandlePostControl(ps, ts) ==
    /\ which = "device"
    /\ LET r == WebPostControl(webControlData, authenticated, ps, ts, DeviceNow)
       IN  /\ webControlData' = r.control
           /\ payload' = IF r.upload
                         THEN [to |-> "control",
                               body |-> BuildControlPayload(r.control)]
                         ELSE payload
    /\ UNCHANGED <<devFrame, clock, controlHandler, configHandler, deviceConfig,
                   controlData, syncStatus, failedCount, deviceIsOnline,
                   initial_config_update, lastSyncedConfig, webDeviceConfig,
                   taskPc, activeServerTasks, linkUp>>

\* the steps of loop() that no task takes part in
LoopNext ==
    \/ Tick
    \/ LinkChange
    \/ \E httpOk \in BOOLEAN, serverTime \in ServerTimes :
          NTPRetry(httpOk, serverTime)

\* Online specification: the time sync retry, the app's POSTs of the
\* timestamp and of the control data, and the telemetry task
OnlineNext ==
    \/ LoopNext
    \/ \E newTimestamp \in ServerTimes : HandlePostTimestamp(newTimestamp)
    \/ Launch("telemetry")
    \/ TaskStart("telemetry")
    \/ \E ok \in BOOLEAN : UploadTelemetryTaskRun(ok)
    \/ \E ps \in BOOLEAN, ts \in ServerTimes : HandlePostControl(ps, ts)

SpecOnline == DeviceInit /\ [][OnlineNext]_vars

\* loop() runs for ever: millis() advances and a time sync retry that is due
\* is made
OnlineFairness ==
    /\ WF_vars(Tick)
    /\ WF_vars(\E httpOk \in BOOLEAN, serverTime \in ServerTimes :
                  NTPRetry(httpOk, serverTime))

SpecOnlineFair == DeviceInit /\ [][OnlineNext]_vars /\ OnlineFairness

\* Refresh specification: the control fetch task with the config refresh
\* it performs
RefreshNext ==
    \/ LoopNext
    \/ Launch("controlFetch")
    \/ TaskStart("controlFetch")
    \/ \E resp \in DeviceControlResponses, cresp \in DeviceConfigResponses,
          differ \in BOOLEAN : FetchControlDataTaskRun(resp, cresp, differ)

SpecRefresh == DeviceInit /\ [][RefreshNext]_vars

\* Launcher specification: the three launchers of loop() and their tasks
LauncherNext ==
    \/ LoopNext
    \/ \E t \in DeviceTasks : Launch(t)
    \/ \E t \in DeviceTasks : TaskStart(t)
    \/ \E ok \in BOOLEAN : UploadTelemetryTaskRun(ok)
    \/ \E resp \in DeviceControlResponses :
          FetchControlDataTaskRun(resp, RespHttpFail, FALSE)
    \/ \E resp \in DeviceConfigResponses :
          FetchConfigFromServerTaskRun(resp, FALSE)

SpecLaunchers == DeviceInit /\ [][LauncherNext]_vars

\* Device specification: the launchers, their tasks and the app's POST of
\* the timestamp
DeviceNext ==
    \/ LauncherNext
    \/ \E newTimestamp \in ServerTimes : HandlePostTimestamp(newTimestamp)

SpecDevice == DeviceInit /\ [][DeviceNext]_vars

(***************************************************************************)
(* Mutex specification: fetchConfigFromServerTask statement by statement   *)
(* from xSemaphoreTake(configMutex) to xSemaphoreGive, with the field by   *)
(* field copy of the merged values into deviceConfig that ends             *)
(* APIClient::fetchAndApplyServerConfig, next to updateSensors(), which    *)
(* loop() runs in another task and which reads deviceConfig's two         *)
(* thresholds.  fetchPc is the task's position: "idle", "taken", "copy",   *)
(* "apply", "give".                                                        *)
(***************************************************************************)
\* the order in which fetchAndApplyServerConfig assigns config's fields
CopyOrder ==
    <<"upperThreshold", "lowerThreshold", "tankHeight", "tankWidth",
      "tankShape", "usedTotal", "maxInflow", "forceUpdate", "ipAddress">>

\* the config documents the cloud answers with in the mutex specification:
\* ConfigB stamped 1, the defaults stamped 2
MutexDocs ==
    {[v |-> [f \in PayloadFields |->
                IF f = "sensorFilter" THEN FALSE ELSE ConfigB[f]], t |-> 1],
     [v |-> [f \in PayloadFields |->
                IF f = "sensorFilter" THEN DEFAULT_SENSOR_FILTER
                                      ELSE ConfigDefaults[f]], t |-> 2]}

MutexResponses ==
    {RespHttpFail} \cup
    {RespDoc("nested", PayloadFields, d.v, [f \in PayloadFields |-> d.t],
             ParseDefaults) : d \in MutexDocs}

MutexInit ==
    /\ which = "mutex"
    /\ controlHandler = ControlBegin
    /\ configHandler = ConfigUpdateSelf(ConfigBegin, ConfigDefaults, 0)
    /\ deviceConfig = NewDeviceConfig
    /\ controlData = NewControlData
    /\ phase = "begin"
    /\ lastRet = FALSE
    /\ authenticated = TRUE
    /\ syncStatus = SetTimestamp(NewSyncStatus, MIN_VALID_TIMESTAMP + 1)
    /\ clock = 0
    /\ payload = NoPayload
    /\ fetchPc = "idle"
    /\ syncPc = "idle"
    /\ failedCount = 0
    /\ deviceIsOnline = TRUE
    /\ initial_config_update = TRUE
    /\ lastSyncedConfig = deviceConfig
    /\ webDeviceConfig = NewDeviceConfig
    /\ taskPc = [t \in DeviceTasks |-> "none"]
    /\ activeServerTasks = 0
    /\ linkUp = TRUE
    /\ webControlData = NewControlData
    /\ timeSync = NewTimeSync
    /\ MutexIdle
    /\ RelayIdle
    /\ MergeIdle

\* the variables no action of the mutex specification writes
mutexFrame == <<which, controlHandler, controlData, phase, authenticated,
                clock, syncPc, taskPc, activeServerTasks, linkUp,
                webControlData, timeSync, relay, prefAutoMode, httpResponse,
                taskReg, mergeVars>>

\* fetchConfigFromServerTask up to xSemaphoreTake: the task passed its
\* checks (Online, link up, authenticated, no pending sync)
MutexTake ==
    /\ which = "mutex"
    /\ fetchPc = "idle"
    /\ deviceIsOnline /\ linkUp /\ authenticated
    /\ syncStatus.device_config_sync_status
    /\ configMutex = "free"
    /\ configMutex' = "configFetch"
    /\ fetchPc' = "taken"
    /\ UNCHANGED <<mutexFrame, configHandler, deviceConfig, lastRet, syncStatus,
                   payload, failedCount, deviceIsOnline, initial_config_update,
                   lastSyncedConfig, webDeviceConfig, fetchStep, sensorPass>>

\* APIClient::fetchAndApplyServerConfig up to configHandler.merge(), and the
\* task's else branch when it returns false
MutexFetchMerge(resp) ==
    /\ which = "mutex"
    /\ fetchPc = "taken"
    /\ LET r == APIFetchConfig(configHandler, deviceConfig, resp,
                               authenticated, IsTimeSynced, DeviceNow)
       IN  /\ lastRet' = r.ok
           /\ configHandler' = r.handler
           /\ payload' = [to |-> "configFetch"]
           /\ IF r.ok
              THEN /\ fetchPc' = "copy"
                   /\ UNCHANGED <<failedCount, deviceIsOnline>>
              ELSE /\ fetchPc' = "give"
                   /\ failedCount' = FailureCounted(failedCount)
                   /\ deviceIsOnline' = OnlineAfterFailure(failedCount, deviceIsOnline)
    /\ fetchStep' = 0
    /\ UNCHANGED <<mutexFrame, deviceConfig, syncStatus, initial_config_update,
                   lastSyncedConfig, webDeviceConfig, configMutex, sensorPass>>

\* "config.x = configHandler.getX(); config.xLastModified = ...": one field
MutexCopyField ==
    /\ which = "mutex"
    /\ fetchPc = "copy"
    /\ LET f == CopyOrder[fetchStep + 1]
       IN  deviceConfig' =
              [deviceConfig EXCEPT
                  ![f] = [value |-> configHandler[f].value,
                          lastModified |-> configHandler[f].lastModified]]
    /\ fetchStep' = fetchStep + 1
    /\ fetchPc' = IF fetchStep' = Len(CopyOrder) THEN "apply" ELSE "copy"
    /\ UNCHANGED <<mutexFrame, configHandler, lastRet, syncStatus, payload,
                   failedCount, deviceIsOnline, initial_config_update,
                   lastSyncedConfig, webDeviceConfig, configMutex, sensorPass>>

MutexApplyDuringCopy(differ) ==
    \* mutant: the task applies and saves while the merged fields are still
    \* being copied
    /\ which = "mutex"
    /\ fetchPc = "copy"
    /\ failedCount' = 0
    /\ initial_config_update' = FALSE
    /\ syncStatus' = IF differ
                     THEN [syncStatus EXCEPT !.device_config_sync_status = FALSE]
                     ELSE syncStatus
    /\ lastSyncedConfig' = deviceConfig
    /\ webDeviceConfig' = deviceConfig
    /\ fetchPc' = "give"
    /\ UNCHANGED <<mutexFrame, configHandler, deviceConfig, lastRet, payload,
                   deviceIsOnline, configMutex, fetchStep, sensorPass>>

\* the task after a successful fetch: the counters, markConfigModified when
\* valuesDifferFromAPI() says so (differ), and apply, save and
\* "lastSyncedConfig = deviceConfig" when the values changed.  previousConfig
\* is lastSyncedConfig: the two are equal whenever the mutex is free.
MutexApply(differ) ==
    /\ which = "mutex"
    /\ fetchPc = "apply"
    /\ failedCount' = 0
    /\ initial_config_update' = FALSE
    /\ syncStatus' = IF differ
                     THEN [syncStatus EXCEPT !.device_config_sync_status = FALSE]
                     ELSE syncStatus
    /\ IF ValuesChanged(deviceConfig, lastSyncedConfig)
       THEN /\ lastSyncedConfig' = deviceConfig
            /\ webDeviceConfig' = deviceConfig
       ELSE UNCHANGED <<lastSyncedConfig, webDeviceConfig>>
    /\ fetchPc' = "give"
    /\ UNCHANGED <<mutexFrame, configHandler, deviceConfig, lastRet, payload,
                   deviceIsOnline, configMutex, fetchStep, sensorPass>>

\* xSemaphoreGive(configMutex) and the end of the task
MutexGive ==
    /\ which = "mutex"
    /\ fetchPc = "give"
    /\ configMutex' = "free"
    /\ fetchPc' = "idle"
    /\ UNCHANGED <<mutexFrame, configHandler, deviceConfig, lastRet, syncStatus,
                   payload, failedCount, deviceIsOnline, initial_config_update,
                   lastSyncedConfig, webDeviceConfig, fetchStep, sensorPass>>

\* updateSensors(): the first of its two reads of deviceConfig's thresholds
\* for relayController.update; the order of the two is the compiler's
UpdateSensorsFirstRead(f) ==
    /\ which = "mutex"
    /\ sensorPass.pc \in {"idle", "done"}
    /\ sensorPass' = [sensorPass EXCEPT !.pc = f, ![f] = deviceConfig[f].value]
    /\ UNCHANGED <<mutexFrame, configHandler, deviceConfig, lastRet, syncStatus,
                   payload, fetchPc, failedCount, deviceIsOnline,
                   initial_config_update, lastSyncedConfig, webDeviceConfig,
                   configMutex, fetchStep>>

\* updateSensors(): the other read, and the call of relayController.update
UpdateSensorsSecondRead ==
    /\ which = "mutex"
    /\ sensorPass.pc \in {"upperThreshold", "lowerThreshold"}
    /\ LET f == IF sensorPass.pc = "upperThreshold" THEN "lowerThreshold"
                                                    ELSE "upperThreshold"
       IN  sensorPass' = [sensorPass EXCEPT !.pc = "done",
                                            ![f] = deviceConfig[f].value]
    /\ UNCHANGED <<mutexFrame, configHandler, deviceConfig, lastRet, syncStatus,
                   payload, fetchPc, failedCount, deviceIsOnline,
                   initial_config_update, lastSyncedConfig, webDeviceConfig,
                   configMutex, fetchStep>>

MutexNext ==
    \/ MutexTake
    \/ \E resp \in MutexResponses : MutexFetchMerge(resp)
    \/ MutexCopyField
    \/ \E differ \in BOOLEAN : MutexApply(differ)
    \/ MutexGive
    \/ \E f \in {"upperThreshold", "lowerThreshold"} : UpdateSensorsFirstRead(f)
    \/ UpdateSensorsSecondRead

SpecMutex == MutexInit /\ [][MutexNext]_vars

\* Refetch specification: the control fetch task with its config refresh,
\* where the cloud's config document changes between two refreshes
RefetchNext ==
    \/ LoopNext
    \/ Launch("controlFetch")
    \/ TaskStart("controlFetch")
    \/ \E resp \in DeviceControlResponses, cresp \in MutexResponses,
          differ \in BOOLEAN : FetchControlDataTaskRun(resp, cresp, differ)

SpecRefetch == DeviceInit /\ [][RefetchNext]_vars

(***************************************************************************)
(* Clock specification: ConnectionSyncManager's setTimestamp and           *)
(* getCurrentTimestamp over a millis() counter that wraps.  The counter    *)
(* has MillisPeriod values instead of 2^32 and uint64_t arithmetic is      *)
(* modulo Uint64Mod, a multiple of MillisPeriod that no true timestamp of  *)
(* the model reaches.                                                      *)
(***************************************************************************)
\* the number of values of millis(), "4294967296ULL" in getCurrentTimestamp
MillisPeriod == 4

\* the number of values of a uint64_t
Uint64Mod == MillisPeriod * 8

\* the milliseconds the model lets pass between two calls of setTimestamp
MaxElapsed == MillisPeriod + 2

\* the timestamps setTimestamp is called with
ClockTimes == 1 .. 2

ClockInit ==
    /\ which = "clock"
    /\ timeSync = NewTimeSync
    /\ configMutex = "free"
    /\ fetchStep = 0
    /\ sensorPass = NewSensorPass
    /\ taskReg = NoReg
    /\ RelayIdle
    /\ taskPc = [t \in DeviceTasks |-> "none"]
    /\ activeServerTasks = 0
    /\ linkUp = FALSE
    /\ webControlData = NewControlData
    /\ fetchPc = "idle"
    /\ syncPc = "idle"
    /\ failedCount = 0
    /\ deviceIsOnline = FALSE
    /\ initial_config_update = FALSE
    /\ lastSyncedConfig = NewDeviceConfig
    /\ webDeviceConfig = NewDeviceConfig
    /\ controlHandler = ControlBegin
    /\ configHandler = ConfigBegin
    /\ phase = "begin"
    /\ lastRet = FALSE
    /\ CloudIdle
    /\ MergeIdle

\* the variables the clock specification leaves alone
clockFrame == <<mergeVars, aggVars, cloudVars, fetchPc, syncPc, failedCount,
                deviceIsOnline, initial_config_update, lastSyncedConfig,
                webDeviceConfig, taskPc, activeServerTasks, linkUp,
                webControlData, configMutex, fetchStep, sensorPass, relay,
                prefAutoMode, httpResponse, taskReg>>

\* one millisecond passes: millis() advances and wraps
MillisTick ==
    /\ which = "clock"
    /\ timeSync.elapsed < MaxElapsed
    /\ timeSync' = [timeSync EXCEPT !.millis = (@ + 1) % MillisPeriod,
                                    !.elapsed = @ + 1]
    /\ UNCHANGED clockFrame

CheckMillisOverflowEveryCall(t) ==
    \* mutant: every call counts an overflow
    [t EXCEPT !.overflowCount = @ + 1,
              !.saved = t.overflowCount + 1,
              !.lastMillis = t.millis]

\* ConnectionSyncManager::checkMillisOverflow on the time fields t
CheckMillisOverflow(t) ==
    IF t.millis < t.lastMillis
    THEN [t EXCEPT !.overflowCount = @ + 1,
                   !.saved = t.overflowCount + 1,
                   !.lastMillis = t.millis]
    ELSE [t EXCEPT !.lastMillis = t.millis]

\* ConnectionSyncManager::setTimestamp
ClockSetTimestamp(timestamp) ==
    /\ which = "clock"
    /\ timeSync' = [timeSync EXCEPT !.lastServerTimestamp = timestamp,
                                    !.millisAtSync = timeSync.millis,
                                    !.overflowCount = 0,
                                    !.saved = 0,
                                    !.elapsed = 0,
                                    !.rebooted = FALSE]
    /\ UNCHANGED clockFrame

\* ConnectionSyncManager::getCurrentTimestamp
ClockGetCurrentTimestamp ==
    /\ which = "clock"
    /\ LET t == CheckMillisOverflow(timeSync)
           elapsedMillis == (t.millis - t.millisAtSync) % Uint64Mod
           overflowCompensation == (t.overflowCount * MillisPeriod) % Uint64Mod
       IN  timeSync' =
              [t EXCEPT !.stamp = (t.lastServerTimestamp + elapsedMillis
                                     + overflowCompensation) % Uint64Mod]
    /\ UNCHANGED clockFrame

ClockNext ==
    \/ MillisTick
    \/ \E timestamp \in ClockTimes : ClockSetTimestamp(timestamp)
    \/ ClockGetCurrentTimestamp

SpecClock == ClockInit /\ [][ClockNext]_vars

\* a reboot: millis() and checkMillisOverflow's static lastMillis restart at 0
\* and ConnectionSyncManager::begin loads what saveSyncStatus last stored,
\* the time fields of the last setTimestamp with the overflow count last saved
ClockReboot ==
    /\ which = "clock"
    /\ timeSync' = [timeSync EXCEPT !.millis = 0,
                                    !.lastMillis = 0,
                                    !.overflowCount = timeSync.saved,
                                    !.stamp = 0,
                                    !.rebooted = TRUE]
    /\ UNCHANGED clockFrame

\* Reboot specification: the clock across reboots
RebootNext ==
    \/ ClockNext
    \/ ClockReboot

SpecReboot == ClockInit /\ [][RebootNext]_vars

\* what getCurrentTimestamp would answer on the time fields t
CurrentTimestampOf(t) ==
    LET c == CheckMillisOverflow(t)
    IN  (c.lastServerTimestamp + ((c.millis - c.millisAtSync) % Uint64Mod)
           + ((c.overflowCount * MillisPeriod) % Uint64Mod)) % Uint64Mod

\* the variables the self updates of the stamp specification leave alone
stampFrame == <<mergeVars, which, phase, lastRet, cloudVars, fetchPc, syncPc,
                failedCount, deviceIsOnline, initial_config_update,
                lastSyncedConfig, webDeviceConfig, devVars>>

\* ControlDataHandler::updateSelf(self_pumpSwitch, self_configUpdate)
StampControlUpdateSelf(ps, cu) ==
    /\ which = "clock"
    /\ controlHandler' = ControlUpdateSelf(controlHandler, ps, cu, timeSync.millis)
    /\ UNCHANGED <<stampFrame, configHandler>>

\* initializeSystem: configHandler.updateSelf with the defaults
StampConfigUpdateSelf ==
    /\ which = "clock"
    /\ configHandler' = ConfigUpdateSelf(configHandler, ConfigDefaults, timeSync.millis)
    /\ UNCHANGED <<stampFrame, controlHandler>>

\* Stamp specification: the clock with the handlers' self updates
StampNext ==
    \/ ClockNext
    \/ \E ps \in BOOLEAN : StampControlUpdateSelf(ps, FALSE)
    \/ StampConfigUpdateSelf

SpecStamp == ClockInit /\ [][StampNext]_vars

\* APIClient::fetchControl from updateFromAPI on: the cloud's observation,
\* stamped by the cloud not later than the device's current timestamp, and
\* the merge
StampControlFetch(ps, ts) ==
    /\ which = "clock"
    /\ ts <= CurrentTimestampOf(timeSync)
    /\ controlHandler' =
          ControlMerge(ControlUpdateFromAPI(controlHandler, ps, ts, FALSE, ts)).handler
    /\ UNCHANGED <<stampFrame, configHandler>>

\* Survive specification: the clock, the control handler's self updates and
\* the cloud's observations
SurviveNext ==
    \/ ClockNext
    \/ \E ps \in BOOLEAN : StampControlUpdateSelf(ps, FALSE)
    \/ \E ps \in BOOLEAN, ts \in ClockTimes : StampControlFetch(ps, ts)

SpecSurvive == ClockInit /\ [][SurviveNext]_vars

(***************************************************************************)
(* The pump relay: RelayController (relay_controller.cpp), the buttons     *)
(* and callbacks of main.cpp that drive it, and the local web server's     *)
(* POST of the control data with its pump callback.  Water levels and      *)
(* thresholds are percentages in units of 0.0005, as every float.  The     *)
(* NVS namespace is taken to open: the key-value store keeps what it is    *)
(* given.                                                                  *)
(***************************************************************************)
\* RelayController::loadMode: getBool(PREF_AUTO_MODE, true)
LoadMode(r, pref) ==
    LET auto == IF pref = "unset" THEN TRUE ELSE pref = "true"
    IN  [r EXCEPT !.autoModeEnabled = auto,
                  !.currentMode = IF auto THEN "AUTO" ELSE "MANUAL"]

\* RelayController::saveMode: the value putBool stores under PREF_AUTO_MODE
SaveMode(r) == IF r.currentMode = "AUTO" THEN "true" ELSE "false"

\* RelayController::applyPumpState
ApplyPumpState(r, state) == [r EXCEPT !.pumpState = state]

HandleAutoModeNoHysteresis(r, waterLevel, upperThreshold, lowerThreshold) ==
    \* mutant: the pump follows the lower threshold alone
    ApplyPumpState(r, waterLevel < lowerThreshold)

\* RelayController::handleAutoMode
HandleAutoMode(r, waterLevel, upperThreshold, lowerThreshold) ==
    IF waterLevel < lowerThreshold THEN ApplyPumpState(r, TRUE)
    ELSE IF waterLevel > upperThreshold THEN ApplyPumpState(r, FALSE)
    ELSE r

\* RelayController::update
RelayUpdate(r, waterLevel, upperThreshold, lowerThreshold) ==
    IF r.hardwareOverride THEN r
    ELSE IF r.currentMode = "AUTO"
    THEN HandleAutoMode(r, waterLevel, upperThreshold, lowerThreshold)
    ELSE r

\* RelayController::turnOn
TurnOn(r) == IF r.currentMode = "AUTO" THEN r ELSE ApplyPumpState(r, TRUE)

\* RelayController::turnOff
TurnOff(r) == IF r.currentMode = "AUTO" THEN r ELSE ApplyPumpState(r, FALSE)

SetModeKeepsPreference(r, pref, mode) ==
    \* mutant: the mode is changed and not saved
    [relay |-> [r EXCEPT !.currentMode = mode], pref |-> pref]

\* RelayController::setMode: the controller and the stored preference
SetMode(r, pref, mode) ==
    IF r.currentMode # mode
    THEN LET n == [r EXCEPT !.currentMode = mode]
         IN  [relay |-> n, pref |-> SaveMode(n)]
    ELSE [relay |-> r, pref |-> pref]

\* RelayController::toggleMode
ToggleMode(r, pref) ==
    IF r.currentMode = "AUTO" THEN SetMode(r, pref, "MANUAL")
                              ELSE SetMode(r, pref, "AUTO")

\* RelayController::setCloudCommand
SetCloudCommand(r, state) ==
    LET n == [r EXCEPT !.cloudCommand = state]
    IN  IF n.currentMode = "MANUAL" THEN ApplyPumpState(n, state) ELSE n

\* RelayController::setHardwareOverride
SetHardwareOverride(r, pref, state) ==
    IF r.hardwareOverride # state
    THEN IF state
         THEN [r EXCEPT !.hardwareOverride = TRUE, !.currentMode = "OVERRIDE"]
         ELSE LoadMode([r EXCEPT !.hardwareOverride = FALSE], pref)
    ELSE r

\* RelayController::begin on a newly constructed controller
RelayBegin(pref) == LoadMode(NewRelay, pref)

\* main.cpp onPumpControl, the web server's pump callback
OnPumpControl(r, state) == IF state THEN TurnOn(r) ELSE TurnOff(r)

\* main.cpp handleButtons, for the four buttons that reach the relay
HandleButtonEvent(r, pref, event) ==
    CASE event = "BTN2_PRESSED" ->
            [relay |-> IF r.currentMode = "MANUAL" THEN TurnOn(r) ELSE r,
             pref |-> pref]
      [] event = "BTN3_PRESSED" -> ToggleMode(r, pref)
      [] event = "BTN4_PRESSED" ->
            [relay |-> IF r.currentMode = "MANUAL" THEN TurnOff(r) ELSE r,
             pref |-> pref]
      [] event = "BTN6_PRESSED" ->
            [relay |-> SetHardwareOverride(r, pref, ~r.hardwareOverride),
             pref |-> pref]

\* WebServer::handlePostControl on a parsed body.  req.pumpSwitch and
\* req.config_update tell whether the body has the key, and its value and
\* lastModified.
\* The answer: WebServer::controlData and the relay afterwards, whether
\* uploadControl is called, and the status code sent.
PostControl(control, r, auth, req, now) ==
    LET hasPumpSwitchInRequest == req.pumpSwitch.present
        hasConfigUpdateInRequest == req.config_update.present
        in_ps == IF hasPumpSwitchInRequest
                 THEN [value |-> req.pumpSwitch.value,
                       lastModified |-> req.pumpSwitch.lastModified]
                 ELSE control.pumpSwitch
        in_cu == IF hasConfigUpdateInRequest
                 THEN [value |-> req.config_update.value,
                       lastModified |-> req.config_update.lastModified]
                 ELSE control.config_update
        hasPriorityFlag ==
            \/ hasPumpSwitchInRequest /\ in_ps.lastModified = 0
            \/ hasConfigUpdateInRequest /\ in_cu.lastModified = 0
        pumpValueChanged == in_ps.value # control.pumpSwitch.value
        configValueChanged == in_cu.value # control.config_update.value
        pumpUpdateAccepted ==
            /\ hasPumpSwitchInRequest
            /\ in_ps.lastModified > control.pumpSwitch.lastModified
        configUpdateAccepted ==
            /\ hasConfigUpdateInRequest
            /\ in_cu.lastModified > control.config_update.lastModified
    IN  IF ~pumpValueChanged /\ ~configValueChanged
        THEN [control |-> control,
              relay |-> IF hasPumpSwitchInRequest
                        THEN OnPumpControl(r, in_ps.value) ELSE r,
              upload |-> FALSE, code |-> 200]
        ELSE IF hasPriorityFlag
        THEN [control |->
                [pumpSwitch |->
                    [value |-> in_ps.value,
                     lastModified |-> IF hasPumpSwitchInRequest
                                      THEN now ELSE in_ps.lastModified],
                 config_update |->
                    [value |-> in_cu.value,
                     lastModified |-> IF hasConfigUpdateInRequest
                                      THEN now ELSE in_cu.lastModified]],
              relay |-> IF hasPumpSwitchInRequest
                        THEN OnPumpControl(r, in_ps.value) ELSE r,
              upload |-> auth, code |-> 200]
        ELSE IF pumpUpdateAccepted \/ configUpdateAccepted
        THEN [control |->
                [pumpSwitch |-> IF pumpUpdateAccepted
                                THEN in_ps ELSE control.pumpSwitch,
                 config_update |-> IF configUpdateAccepted
                                   THEN in_cu ELSE control.config_update],
              relay |-> IF pumpUpdateAccepted
                        THEN OnPumpControl(r, in_ps.value) ELSE r,
              upload |-> auth, code |-> 200]
        ELSE [control |-> control, relay |-> r, upload |-> FALSE, code |-> 409]

\* Bounds of the relay specification: the timestamps an app sends, the
\* device's current timestamp, and water levels on both sides of the two
\* default thresholds (19, 20, 50, 85 and 86 percent).
MaxRelayTs == 2

RelayTs == 0 .. MaxRelayTs

RelayNow == MaxRelayTs

WaterLevels == {19 * 2000, 20 * 2000, 50 * 2000, 85 * 2000, 86 * 2000}

AbsentField == [present |-> FALSE, value |-> FALSE, lastModified |-> 0]

FieldBodies ==
    {AbsentField} \cup [present : {TRUE}, value : BOOLEAN, lastModified : RelayTs]

PostBodies == [pumpSwitch : FieldBodies, config_update : FieldBodies]

ButtonEvents == {"BTN2_PRESSED", "BTN3_PRESSED", "BTN4_PRESSED", "BTN6_PRESSED"}

\* initializeSystem has run: the relay controller loaded its mode from NVS,
\* the config holds the default thresholds
RelayInit ==
    /\ which = "relay"
    /\ prefAutoMode \in {"unset", "true", "false"}
    /\ relay = RelayBegin(prefAutoMode)
    /\ httpResponse = 0
    /\ controlHandler = ControlBegin
    /\ configHandler = ConfigUpdateSelf(ConfigBegin, ConfigDefaults, 0)
    /\ deviceConfig =
         [NewDeviceConfig EXCEPT
            !.upperThreshold.value = DEFAULT_UPPER_THRESHOLD,
            !.lowerThreshold.value = DEFAULT_LOWER_THRESHOLD]
    /\ controlData = NewControlData
    /\ phase = "begin"
    /\ lastRet = FALSE
    /\ authenticated \in BOOLEAN
    /\ syncStatus = [NewSyncStatus EXCEPT !.lastServerTimestamp = RelayNow]
    /\ clock = 0
    /\ payload = NoPayload
    /\ fetchPc = "idle"
    /\ syncPc = "idle"
    /\ failedCount = 0
    /\ deviceIsOnline = FALSE
    /\ initial_config_update = FALSE
    /\ lastSyncedConfig = deviceConfig
    /\ webDeviceConfig = deviceConfig
    /\ taskPc = [t \in DeviceTasks |-> "none"]
    /\ activeServerTasks = 0
    /\ linkUp = TRUE
    /\ webControlData = NewControlData
    /\ timeSync = NewTimeSync
    /\ MutexIdle
    /\ MergeIdle

\* the variables no action of the relay specification writes
relayFrame == <<mergeVars, which, controlHandler, configHandler, phase, lastRet,
                deviceConfig, authenticated, syncStatus, clock, fetchPc,
                syncPc, failedCount, deviceIsOnline, initial_config_update,
                lastSyncedConfig, webDeviceConfig, taskPc, activeServerTasks,
                linkUp, timeSync, configMutex, fetchStep, sensorPass,
                taskReg>>

\* main.cpp updateSensors: the relay controller sees the new water level
UpdateSensors(waterLevel) ==
    /\ which = "relay"
    /\ relay' = RelayUpdate(relay, waterLevel,
                            deviceConfig.upperThreshold.value,
                            deviceConfig.lowerThreshold.value)
    /\ UNCHANGED <<relayFrame, prefAutoMode, httpResponse, webControlData,
                   controlData, payload>>

\* main.cpp handleButtons
HandleButtons(event) ==
    /\ which = "relay"
    /\ LET b == HandleButtonEvent(relay, prefAutoMode, event)
       IN  /\ relay' = b.relay
           /\ prefAutoMode' = b.pref
    /\ UNCHANGED <<relayFrame, httpResponse, webControlData, controlData,
                   payload>>

\* fetchControlDataTask on a fetched control document whose config_update
\* is false: the cloud's pump command
CloudPumpCommand(ps, ts) ==
    /\ which = "relay"
    /\ controlData' = [controlData EXCEPT
                          !.pumpSwitch = [value |-> ps, lastModified |-> ts]]
    /\ webControlData' = controlData'
    /\ relay' = IF relay.currentMode = "MANUAL"
                THEN SetCloudCommand(relay, ps) ELSE relay
    /\ UNCHANGED <<relayFrame, prefAutoMode, httpResponse, payload>>

\* WebServer::handlePostControl: the app's POST of the control data
LocalPostControl(req) ==
    /\ which = "relay"
    /\ LET o == PostControl(webControlData, relay, authenticated, req, DeviceNow)
       IN  /\ webControlData' = o.control
           /\ relay' = o.relay
           /\ httpResponse' = o.code
           /\ payload' = IF o.upload
                         THEN [to |-> "control",
                               body |-> BuildControlPayload(o.control)]
                         ELSE payload
    /\ UNCHANGED <<relayFrame, prefAutoMode, controlData>>

\* the device restarts: setup() constructs and begins everything again, the
\* NVS keeps the stored mode and the cloud what it was sent
Reboot ==
    /\ which = "relay"
    /\ relay' = RelayBegin(prefAutoMode)
    /\ webControlData' = NewControlData
    /\ controlData' = NewControlData
    /\ httpResponse' = 0
    /\ UNCHANGED <<relayFrame, prefAutoMode, payload>>

RelayNext ==
    \/ \E waterLevel \in WaterLevels : UpdateSensors(waterLevel)
    \/ \E event \in ButtonEvents : HandleButtons(event)
    \/ \E ps \in BOOLEAN, ts \in RelayTs : CloudPumpCommand(ps, ts)
    \/ \E req \in PostBodies : LocalPostControl(req)
    \/ Reboot

SpecRelay == RelayInit /\ [][RelayNext]_vars

(***************************************************************************)
(* Lock specification: fetchControlDataTask, fetchConfigFromServerTask and *)
(* syncConfigToServerTask statement by statement around configMutex and    *)
(* activeServerTasks.  taskPc of a task is "none" (handle NULL), "created" *)
(* (xTaskCreate done), "inc" (inside activeServerTasks++), "checks",       *)
(* "waiting" (in xSemaphoreTake), "holding", "exit" (before the final      *)
(* activeServerTasks--) or "dec" (inside it).  The tasks run at priority 1 *)
(* without core affinity, so the load and the store of a "++" or "--" on   *)
(* the volatile int are separate steps.  The values the tasks move under   *)
(* the mutex are the subject of the mutex and device specifications; here  *)
(* the body keeps what decides the control flow.                           *)
(***************************************************************************)
\* the launchers stop creating tasks once the counter, or a value a task has
\* loaded from it, has drifted this far below 0
MaxCounterDrift == 1

LockInit ==
    /\ which = "lock"
    /\ controlHandler = ControlBegin
    /\ configHandler = ConfigUpdateSelf(ConfigBegin, ConfigDefaults, 0)
    /\ deviceConfig = NewDeviceConfig
    /\ controlData = NewControlData
    /\ phase = "begin"
    /\ lastRet = FALSE
    /\ authenticated = TRUE
    /\ syncStatus \in {NewSyncStatus,
                       SetTimestamp(NewSyncStatus, MIN_VALID_TIMESTAMP + 1)}
    /\ clock = 0
    /\ payload = NoPayload
    /\ fetchPc = "idle"
    /\ syncPc = "idle"
    /\ failedCount = 0
    /\ deviceIsOnline = TRUE
    /\ initial_config_update = TRUE
    /\ lastSyncedConfig = deviceConfig
    /\ webDeviceConfig = NewDeviceConfig
    /\ taskPc = [t \in LockTasks |-> "none"]
    /\ activeServerTasks = 0
    /\ linkUp \in BOOLEAN
    /\ webControlData = NewControlData
    /\ timeSync = NewTimeSync
    /\ MutexIdle
    /\ RelayIdle
    /\ MergeIdle

\* the variables no action of the lock specification writes
lockFrame == <<which, controlHandler, configHandler, deviceConfig, controlData,
               phase, lastRet, authenticated, clock, payload, fetchPc, syncPc,
               failedCount, lastSyncedConfig, webDeviceConfig, webControlData,
               timeSync, fetchStep, sensorPass, relay, prefAutoMode,
               httpResponse, mergeVars>>

\* the counter and the values loaded from it have not left the bounds
CounterInBounds ==
    \A n \in {activeServerTasks} \cup {taskReg[t] : t \in LockTasks} :
        0 - MaxCounterDrift < n /\ n < MAX_CONCURRENT_SERVER_TASKS

\* fetchControlData(), fetchConfigFromServer(), syncConfigToServer(): the
\* handle is NULL and the counter is below MAX_CONCURRENT_SERVER_TASKS
LockMayCreate(t) ==
    /\ taskPc[t] = "none"
    /\ activeServerTasks < MAX_CONCURRENT_SERVER_TASKS
    /\ CounterInBounds

\* loop(): the interval of fetchControlData() or, when the time is synced and
\* initial_config_update is set, of fetchConfigFromServer() has passed
LockLaunch(t) ==
    /\ which = "lock"
    /\ t \in {"controlFetch", "configFetch"}
    /\ linkUp
    /\ t = "configFetch" => IsTimeSynced /\ initial_config_update
    /\ LockMayCreate(t)
    /\ taskPc' = [taskPc EXCEPT ![t] = "created"]
    /\ UNCHANGED <<lockFrame, syncStatus, linkUp, deviceIsOnline,
                   initial_config_update, activeServerTasks, configMutex,
                   taskReg>>

\* handlePostDeviceConfig with the priority flag: markConfigModified() and
\* the callback syncConfigToServer()
LockPostConfig ==
    /\ which = "lock"
    /\ LockMayCreate("configSync")
    /\ syncStatus' = [syncStatus EXCEPT !.device_config_sync_status = FALSE]
    /\ taskPc' = [taskPc EXCEPT !["configSync"] = "created"]
    /\ UNCHANGED <<lockFrame, linkUp, deviceIsOnline,
                   initial_config_update, activeServerTasks, configMutex,
                   taskReg>>

\* the load of "activeServerTasks++" (first statement of a task) or of
\* "activeServerTasks--" (before the task clears its handle)
LoadCounter(t) ==
    /\ which = "lock"
    /\ taskPc[t] \in {"created", "exit"}
    /\ taskReg' = [taskReg EXCEPT ![t] = activeServerTasks]
    /\ taskPc' = [taskPc EXCEPT ![t] = IF taskPc[t] = "created" THEN "inc"
                                                                 ELSE "dec"]
    /\ UNCHANGED <<lockFrame, syncStatus, linkUp, deviceIsOnline,
                   initial_config_update, activeServerTasks, configMutex>>

\* the store of "activeServerTasks++"
StoreIncrement(t) ==
    /\ which = "lock"
    /\ taskPc[t] = "inc"
    /\ activeServerTasks' = taskReg[t] + 1
    /\ taskReg' = [taskReg EXCEPT ![t] = 0]
    /\ taskPc' = [taskPc EXCEPT ![t] = "checks"]
    /\ UNCHANGED <<lockFrame, syncStatus, linkUp, deviceIsOnline,
                   initial_config_update, configMutex>>

\* "failedCount++; if (failedCount >= 10) deviceIsOnline = false;" where the
\* count itself is not kept: tenth says whether this failure is the tenth
OnlineAfter(fail, tenth) == IF fail /\ tenth THEN FALSE ELSE deviceIsOnline

\* the checks before xSemaphoreTake.  fetchControlDataTask: offline, link and
\* authentication (counted as a failure), then fetchControl (httpOk);
\* fetchConfigFromServerTask: offline, link and authentication (counted),
\* pending sync; syncConfigToServerTask: link and authentication, time sync
TaskChecks(t, httpOk, tenth) ==
    /\ which = "lock"
    /\ taskPc[t] = "checks"
    /\ LET connected == linkUp /\ authenticated
           skip == CASE t = "controlFetch" -> ~deviceIsOnline
                     [] t = "configFetch" ->
                            \/ ~deviceIsOnline
                            \/ connected /\ ~syncStatus.device_config_sync_status
                     [] t = "configSync" -> ~connected \/ ~IsTimeSynced
           fail == /\ ~skip
                   /\ t # "configSync"
                   /\ ~connected \/ (t = "controlFetch" /\ ~httpOk)
       IN  /\ taskPc' = [taskPc EXCEPT ![t] = IF skip \/ fail THEN "exit"
                                                              ELSE "waiting"]
           /\ deviceIsOnline' = OnlineAfter(fail, tenth)
    /\ UNCHANGED <<lockFrame, syncStatus, linkUp, initial_config_update,
                   activeServerTasks, configMutex, taskReg>>

\* xSemaphoreTake(configMutex, portMAX_DELAY) returns
TakeMutex(t) ==
    /\ which = "lock"
    /\ taskPc[t] = "waiting"
    /\ configMutex = "free"
    /\ configMutex' = t
    /\ taskPc' = [taskPc EXCEPT ![t] = "holding"]
    /\ UNCHANGED <<lockFrame, syncStatus, linkUp, deviceIsOnline,
                   initial_config_update, activeServerTasks, taskReg>>

\* what the statements under the mutex leave in the flags and counters.
\* fetchControlDataTask: when the cloud asks for a refresh (refresh) and
\* fetchAndApplyServerConfig succeeds (httpOk), initial_config_update is
\* cleared and markConfigModified() called when valuesDifferFromAPI()
\* (differ).  fetchConfigFromServerTask: the same on success, and a counted
\* failure otherwise.
\* syncConfigToServerTask: sendConfigWithPriority only when a sync is
\* pending and deviceConfig.valuesChanged(lastSyncedConfig); success clears
\* the pending flag, a failure is counted.
UnderMutex(t, refresh, httpOk, differ, tenth) ==
    LET fetched == CASE t = "controlFetch" -> refresh /\ httpOk
                     [] t = "configFetch" -> httpOk
                     [] t = "configSync" -> FALSE
        sends == /\ t = "configSync"
                 /\ ~syncStatus.device_config_sync_status
                 /\ ValuesChanged(deviceConfig, lastSyncedConfig)
        fail == (t = "configFetch" /\ ~httpOk) \/ (sends /\ ~httpOk)
    IN  [initial |-> IF fetched THEN FALSE ELSE initial_config_update,
         synced |-> IF fetched /\ differ THEN FALSE
                    ELSE IF sends /\ httpOk THEN TRUE
                    ELSE syncStatus.device_config_sync_status,
         online |-> OnlineAfter(fail, tenth)]

TaskBodyKeepsMutex(t, refresh, httpOk, differ, tenth) ==
    \* mutant: the task leaves the block without xSemaphoreGive
    /\ which = "lock"
    /\ taskPc[t] = "holding"
    /\ taskPc' = [taskPc EXCEPT ![t] = "exit"]
    /\ UNCHANGED <<lockFrame, syncStatus, linkUp, deviceIsOnline,
                   initial_config_update, activeServerTasks, configMutex,
                   taskReg>>

\* the block under the mutex, ending with xSemaphoreGive(configMutex)
TaskBody(t, refresh, httpOk, differ, tenth) ==
    /\ which = "lock"
    /\ taskPc[t] = "holding"
    /\ LET o == UnderMutex(t, refresh, httpOk, differ, tenth)
       IN  /\ initial_config_update' = o.initial
           /\ syncStatus' = [syncStatus EXCEPT
                                !.device_config_sync_status = o.synced]
           /\ deviceIsOnline' = o.online
    /\ configMutex' = "free"
    /\ taskPc' = [taskPc EXCEPT ![t] = "exit"]
    /\ UNCHANGED <<lockFrame, linkUp, activeServerTasks, taskReg>>

\* the store of "activeServerTasks--", "xxxTaskHandle = NULL" and
\* vTaskDelete(NULL)
StoreDecrement(t) ==
    /\ which = "lock"
    /\ taskPc[t] = "dec"
    /\ activeServerTasks' = taskReg[t] - 1
    /\ taskReg' = [taskReg EXCEPT ![t] = 0]
    /\ taskPc' = [taskPc EXCEPT ![t] = "none"]
    /\ UNCHANGED <<lockFrame, syncStatus, linkUp, deviceIsOnline,
                   initial_config_update, configMutex>>

\* one step of task t
TaskStep(t) ==
    \/ LoadCounter(t)
    \/ StoreIncrement(t)
    \/ \E httpOk \in BOOLEAN, tenth \in BOOLEAN : TaskChecks(t, httpOk, tenth)
    \/ \E refresh \in BOOLEAN, httpOk \in BOOLEAN, differ \in BOOLEAN,
          tenth \in BOOLEAN : TaskBody(t, refresh, httpOk, differ, tenth)
    \/ StoreDecrement(t)

LockNext ==
    \/ \E t \in LockTasks : LockLaunch(t)
    \/ LockPostConfig
    \/ \E t \in LockTasks : LoadCounter(t)
    \/ \E t \in LockTasks : StoreIncrement(t)
    \/ \E t \in LockTasks, httpOk \in BOOLEAN, tenth \in BOOLEAN :
          TaskChecks(t, httpOk, tenth)
    \/ \E t \in LockTasks : TakeMutex(t)
    \/ \E t \in LockTasks, refresh \in BOOLEAN, httpOk \in BOOLEAN,
          differ \in BOOLEAN, tenth \in BOOLEAN :
          TaskBody(t, refresh, httpOk, differ, tenth)
    \/ \E t \in LockTasks : StoreDecrement(t)

SpecLock == LockInit /\ [][LockNext]_vars

\* A created task is scheduled until it deletes itself and every HTTP call
\* returns within its timeout: weak fairness of each task's own steps.
\* xSemaphoreGive readies the task that waits in xSemaphoreTake, and the next
\* taker is created by loop() an interval later: strong fairness of the take.
\* loop()'s launchers and the app's POST carry no fairness.
LockFairness ==
    \A t \in LockTasks : WF_vars(TaskStep(t)) /\ SF_vars(TakeMutex(t))

SpecLockFair == LockInit /\ [][LockNext]_vars /\ LockFairness

(***************************************************************************)
(* Properties of the merge engine, checked under SpecMerge.                *)
(***************************************************************************)
\* Timestamp of source i (1 = API, 2 = LOCAL, 3 = SELF) of a field.
TsOf(f, i) ==
    CASE i = 1 -> f.api_lastModified
      [] i = 2 -> f.local_lastModified
      [] OTHER -> f.lastModified

\* Value of source i of a field.
ValOf(f, i) ==
    CASE i = 1 -> f.api_value
      [] i = 2 -> f.local_value
      [] OTHER -> f.value

\* The sources of a field that carry a non-zero timestamp.
SetSources(f) == {i \in 1..3 : TsOf(f, i) > 0}

\* Last-Write-Wins as the specification words it: among the set sources the
\* greatest timestamp, and API before LOCAL before SELF when it is shared.
LwwWinner(f) ==
    CHOOSE i \in SetSources(f) :
        \A j \in SetSources(f) :
            \/ TsOf(f, i) > TsOf(f, j)
            \/ TsOf(f, i) = TsOf(f, j) /\ i <= j

\* End-to-end scenario A: api = (10, ts 100), local = (20, ts 0), self = (15, ts 50).
ScenarioA ==
    [api_value |-> 20000, api_lastModified |-> 100,
     local_value |-> 40000, local_lastModified |-> 0,
     value |-> 30000, lastModified |-> 50]

\* C1: if the api timestamp is 0 (priority override) and neither local nor
\* self carries timestamp 0, the merged value equals api_value, whatever the
\* local and self timestamps are.
C1_ApiPriorityWins ==
    (/\ mpc = "merged"
     /\ pre.api_lastModified = 0
     /\ pre.local_lastModified # 0
     /\ pre.lastModified # 0)
        => sync.value = pre.api_value

C6_MergeFrame ==
    mpc = "merged" =>
        /\ winner \in 1..3
        /\ sync.value = ValOf(pre, winner)
        /\ sync.lastModified = TsOf(pre, winner)
        /\ sync.api_value = pre.api_value
        /\ sync.api_lastModified = pre.api_lastModified
        /\ sync.local_value = pre.local_value
        /\ sync.local_lastModified = pre.local_lastModified

C6_Witness ==
    /\ mpc = "merged"
    /\ winner = 2
    /\ sync.value # pre.value
    /\ sync.lastModified # pre.lastModified
    /\ pre.api_lastModified > 0
    /\ pre.api_value # pre.local_value

(***************************************************************************)
(* Properties of the aggregates, checked under SpecAggregate.              *)
(***************************************************************************)
\* the handler the behaviour exercises, as created by begin() and as it is
AggBegin == IF which = "control" THEN ControlBegin ELSE ConfigBegin

AggHandler == IF which = "control" THEN controlHandler ELSE configHandler

AggHandlerNext == IF which = "control" THEN controlHandler' ELSE configHandler'

AggFields == DOMAIN AggHandler

\* what a call of merge() in the current state returns and leaves
AggMergeNow ==
    IF which = "control" THEN ControlMerge(controlHandler)
                         ELSE ConfigMerge(configHandler)

\* C5: merge() called right after merge(), with no update in between,
\* returns changed = false and leaves every value and every timestamp of
\* the aggregate as the first call left them.
C5_MergeIdempotent ==
    phase \in {"selfMerged", "merged", "mergedAgain"} =>
        /\ AggMergeNow.changed = FALSE
        /\ AggMergeNow.handler = AggHandler
        /\ phase = "mergedAgain" => lastRet = FALSE

\* a second merge in a row, after a first one that moved the config to the
\* values received from the API
C5_Witness ==
    /\ which = "config"
    /\ phase = "mergedAgain"
    /\ lastRet = FALSE
    /\ configHandler.upperThreshold.api_lastModified > 0
    /\ configHandler.upperThreshold.value = ConfigB.upperThreshold
    /\ configHandler.tankShape.value = "Rectangular"

\* C7 (as amended): on a fresh aggregate whose api and local sources were
\* never set, after updateSelf(v, T) with T > 0 the next merge() selects
\* SELF for every field whose v differs from the default, leaves the field
\* at (v, T), and returns changed = false.
C7_SelfThenMerge ==
    [][(phase = "self" /\ phase' = "selfMerged") =>
         \A f \in AggFields :
            (AggHandler[f].lastModified > 0
               /\ AggHandler[f].value # AggBegin[f].value) =>
                 /\ FindWinner(AggHandler[f].api_lastModified,
                               AggHandler[f].local_lastModified,
                               AggHandler[f].lastModified) = 3
                 /\ AggHandlerNext[f] = AggHandler[f]
                 /\ lastRet' = FALSE]_vars

\* begin(), updateSelf(75, ..., T = 1), merge(): upperThreshold is (75, 1)
C7_Witness ==
    /\ which = "config"
    /\ phase = "selfMerged"
    /\ configHandler.upperThreshold.value = 75 * 2000
    /\ configHandler.upperThreshold.lastModified = 1
    /\ configHandler.upperThreshold.api_lastModified = 0
    /\ configHandler.upperThreshold.local_lastModified = 0
    /\ lastRet = FALSE

\* C7 as stated: after updateSelf(v, T) on a fresh aggregate, with v not the
\* default, the next merge() selects SELF, leaves (v, T) and returns
\* changed = true.
C7_SelfThenMergeChanged ==
    [][(phase = "self" /\ phase' = "selfMerged") =>
         \A f \in AggFields :
            (AggHandler[f].value # AggBegin[f].value) =>
                 /\ FindWinner(AggHandler[f].api_lastModified,
                               AggHandler[f].local_lastModified,
                               AggHandler[f].lastModified) = 3
                 /\ AggHandlerNext[f] = AggHandler[f]
                 /\ lastRet' = TRUE]_vars

(***************************************************************************)
(* Properties of the cloud fetch, checked under SpecFetch.                 *)
(***************************************************************************)
\* responses the claim calls malformed or failed: no 2xx answer, a JSON
\* parse failure, no container object, or a container that lacks fields
MalformedConfigResponses == FailedResponses \cup PartialConfigResponses

MalformedControlResponses == FailedResponses \cup PartialControlResponses

\* C8: a config or control fetch that fails, or whose response is malformed
\* (JSON parse failure, missing expected keys), returns false and leaves
\* every slot of the handler and every field of the snapshot as they were.
C8_FailedFetchLeavesState ==
    [][/\ \A resp \in MalformedConfigResponses :
            FetchConfig(resp) =>
                /\ lastRet' = FALSE
                /\ configHandler' = configHandler
                /\ deviceConfig' = deviceConfig
       /\ \A resp \in MalformedControlResponses :
            FetchControl(resp) =>
                /\ lastRet' = FALSE
                /\ controlHandler' = controlHandler
                /\ controlData' = controlData]_vars

(***************************************************************************)
(* Properties of the push with priority, checked under SpecPush.           *)
(***************************************************************************)
\* C9: every payload a push with priority sends carries timestamp 0 on
\* every field, whatever the fields' timestamps in the snapshot are; so
\* does the push that follows setAllPriority().
C9_PushSendsZeroStamps ==
    payload.to # "none" =>
        \A f \in DOMAIN payload.body : payload.body[f].lastModified = 0

\* setAllPriority(), then a push of a snapshot whose fields carry
\* timestamps above 0; the POST failed, so the snapshot still shows them
C9_Witness ==
    /\ phase = "priorityPushed"
    /\ payload.to = "config"
    /\ lastRet = FALSE
    /\ deviceConfig.upperThreshold.lastModified > 0
    /\ deviceConfig.tankShape.lastModified > 0
    /\ payload.body.upperThreshold.value = deviceConfig.upperThreshold.value

(***************************************************************************)
(* Properties of the tasks, checked under SpecTasks.                       *)
(***************************************************************************)
\* the fetch task issues its GET: the block under configMutex runs and
\* APIClient::fetchAndApplyServerConfig passes its authentication check
ConfigFetchTaskFetches ==
    fetchPc = "checked" /\ fetchPc' = "idle" /\ authenticated

\* C10: while device_config_sync_status says ToServer (false), a step of the
\* periodic config-fetch task issues no fetch and leaves the config handler
\* and the deviceConfig snapshot unchanged.
C10_NoFetchWhilePending ==
    [][~syncStatus.device_config_sync_status =>
         /\ ~ConfigFetchTaskFetches
         /\ (fetchPc = "checked" /\ fetchPc' = "idle") =>
                /\ configHandler' = configHandler
                /\ deviceConfig' = deviceConfig]_vars

(***************************************************************************)
(* Liveness of the config push, checked under SpecTasksFair.               *)
(***************************************************************************)
\* config_sync_status is ToServer while the device is Online, authenticated
\* and time-synced
PendingOnline ==
    /\ ~syncStatus.device_config_sync_status
    /\ deviceIsOnline
    /\ authenticated
    /\ IsTimeSynced

\* a step of syncConfigToServerTask that called sendConfigWithPriority: the
\* call either resets the flag or counts a failure
ConfigPushAttempt ==
    /\ syncPc = "running" /\ syncPc' = "idle"
    /\ \/ syncStatus'.device_config_sync_status # syncStatus.device_config_sync_status
       \/ failedCount' # failedCount

\* a config payload has been sent; in this specification only
\* syncConfigToServerTask sends one
ConfigPushAttempted == payload.to = "config"

\* C11: whenever the flag is ToServer while the device is Online,
\* authenticated and time-synced, a config push is eventually attempted;
\* unless pushes are rejected again and again the flag eventually returns to
\* FromServer; and the flag does not stay ToServer forever.
C11_PendingEventuallyPushed ==
    /\ PendingOnline ~> ConfigPushAttempted
    /\ \/ []<><<ConfigPushAttempt /\ ~lastRet'>>_vars
       \/ PendingOnline ~> syncStatus.device_config_sync_status
    /\ ~<>[]PendingOnline

(***************************************************************************)
(* Properties of the config push, checked under SpecPush.                  *)
(***************************************************************************)
\* the backend accepted the POST: a 2xx answer that parses and says success
PostAccepted(post) == post.http = "ok" /\ post.json = "ok" /\ post.success

\* C12: a config push-with-priority succeeds exactly when the device is
\* authenticated and the backend accepts the POST; it sets
\* device_config_sync_status to FromServer (true) exactly then, and a failed
\* push leaves the flag and the snapshot as they were.
C12_PushResetsFlagOnSuccess ==
    [][\A post \in PostOutcomes :
          PushConfig(post) =>
            LET ok == authenticated /\ PostAccepted(post)
            IN  /\ lastRet' = ok
                /\ ok => syncStatus'.device_config_sync_status
                /\ ~ok => /\ syncStatus' = syncStatus
                          /\ deviceConfig' = deviceConfig]_vars

\* a push of a snapshot with the flag at ToServer has failed, and the flag is
\* still ToServer
C12_Witness ==
    /\ which = "config"
    /\ phase = "pushed"
    /\ payload.to = "config"
    /\ lastRet = FALSE
    /\ ~syncStatus.device_config_sync_status
    /\ deviceConfig.upperThreshold.value = ConfigB.upperThreshold

(***************************************************************************)
(* Properties of the online flag and of the failure counter.               *)
(***************************************************************************)
\* a step of the time sync retry in which the time endpoint answered a
\* valid time, which is stored
ValidTimeSync ==
    \E serverTime \in ServerTimes :
        /\ serverTime > MIN_VALID_TIMESTAMP
        /\ NTPRetry(TRUE, serverTime)
        /\ authenticated
        /\ syncStatus'.lastServerTimestamp = serverTime

\* C13: the device starts Offline, and the online flag becomes true only in
\* a step of the external time sync that obtained a valid time; no other
\* operation sets it.
C13_OnlineOnlyByTimeSync ==
    /\ ~deviceIsOnline
    /\ [][(~deviceIsOnline /\ deviceIsOnline') => ValidTimeSync]_vars

\* the device is Online after a time sync and a task has run since
C13_Witness ==
    /\ which = "device"
    /\ deviceIsOnline
    /\ syncStatus.lastServerTimestamp > MIN_VALID_TIMESTAMP
    /\ payload.to = "telemetry"

\* the results of the cloud requests fetchControlDataTask makes, in order:
\* the control GET and, when the merged flag asks for it, the config GET
CloudOutcomes(resp, cresp) ==
    LET r == APIFetchControl(controlHandler, NewControlData, resp,
                             authenticated, IsTimeSynced, DeviceNow)
        c == APIFetchConfig(configHandler, deviceConfig, cresp,
                            authenticated, IsTimeSynced, DeviceNow)
    IN  IF ~r.ok THEN <<FALSE>>
        ELSE IF r.control.config_update.value THEN <<TRUE, c.ok>>
        ELSE <<TRUE>>

\* a counter of consecutive failures after the outcomes, from count
RECURSIVE CountAfter(_, _)
CountAfter(count, outcomes) ==
    IF outcomes = <<>> THEN count
    ELSE CountAfter(IF Head(outcomes) THEN 0 ELSE count + 1, Tail(outcomes))

\* C14: failedCount counts the consecutive failed cloud operations: each
\* failure increments it, each success resets it to 0; and once no task is
\* running, failedCount >= 10 implies Offline.
C14_CounterCountsFailures ==
    /\ [][\A resp \in DeviceControlResponses, cresp \in DeviceConfigResponses,
             differ \in BOOLEAN :
             FetchControlDataTaskRun(resp, cresp, differ) =>
                failedCount' = CountAfter(failedCount, CloudOutcomes(resp, cresp))]_vars
    /\ []((failedCount >= FailedCountLimit /\ TasksInFlight = {})
             => ~deviceIsOnline)

\* the cap of the model's counter is never reached, and the threshold part
\* of C14 holds
C14_ThresholdOffline ==
    /\ failedCount < MaxFailedCount
    /\ (failedCount >= FailedCountLimit /\ TasksInFlight = {}) => ~deviceIsOnline

(***************************************************************************)
(* Properties of the device while Offline.                                 *)
(***************************************************************************)
\* a step that sends a request to the cloud: the network part of a task, or
\* the app's POST of control data when the handler uploads it
CloudRequest ==
    \/ \E ok \in BOOLEAN : UploadTelemetryTaskRun(ok)
    \/ \E resp \in DeviceControlResponses, cresp \in DeviceConfigResponses,
          differ \in BOOLEAN : FetchControlDataTaskRun(resp, cresp, differ)
    \/ \E resp \in DeviceConfigResponses, differ \in BOOLEAN :
          FetchConfigFromServerTaskRun(resp, differ)
    \/ \E ps \in BOOLEAN, ts \in ServerTimes :
          /\ HandlePostControl(ps, ts)
          /\ WebPostControl(webControlData, authenticated, ps, ts, DeviceNow).upload

\* C15: while the device is Offline no cloud request is issued, and a
\* background task that runs while Offline exits without network I/O.
C15_NoCloudRequestOffline ==
    [][CloudRequest => deviceIsOnline]_vars

(***************************************************************************)
(* Properties of the time sync retry.                                      *)
(***************************************************************************)
\* a step of loop() that calls syncWithInternet()
TimeSyncAttempt ==
    \E httpOk \in BOOLEAN, serverTime \in ServerTimes : NTPRetry(httpOk, serverTime)

OfflineLinkUp == ~deviceIsOnline /\ linkUp

\* C16: while the device stays Offline with the link up, the time sync is
\* attempted again and again, each time after a retry interval; and an
\* attempt that returns a valid time makes the device Online.
C16_TimeSyncRetried ==
    /\ []<>(~OfflineLinkUp) \/ []<><<TimeSyncAttempt>>_vars
    /\ [][TimeSyncAttempt => clock >= NTP_RETRY_INTERVAL]_vars
    /\ [][\A serverTime \in ServerTimes :
             (/\ NTPRetry(TRUE, serverTime)
              /\ authenticated
              /\ serverTime > MIN_VALID_TIMESTAMP) => deviceIsOnline']_vars

\* the device went Online by a retry, none is due again yet
C16_Witness ==
    /\ which = "device"
    /\ deviceIsOnline
    /\ clock = 0
    /\ syncStatus.lastServerTimestamp > MIN_VALID_TIMESTAMP
    /\ failedCount = 0
    /\ initial_config_update

(***************************************************************************)
(* Properties of the config refresh flag.                                  *)
(***************************************************************************)
\* the control data fetchControlDataTask obtains from the answer resp
FetchedControl(resp) ==
    APIFetchControl(controlHandler, NewControlData, resp,
                    authenticated, IsTimeSynced, DeviceNow)

\* C17: a control fetch that observes the config refresh flag true ends with
\* the flag cleared on the device and with a control upload that carries the
\* cleared flag: the flag does not remain true after the cycle.
C17_RefreshFlagOneShot ==
    [][\A resp \in DeviceControlResponses, cresp \in DeviceConfigResponses,
          differ \in BOOLEAN :
          (/\ FetchControlDataTaskRun(resp, cresp, differ)
           /\ FetchedControl(resp).ok
           /\ FetchedControl(resp).control.config_update.value)
          => /\ ~controlHandler'.configUpdate.value
             /\ payload'.to = "control"
             /\ ~payload'.body.config_update.value]_vars

(***************************************************************************)
(* Properties of the launchers.                                            *)
(***************************************************************************)
\* C18: at most MAX_CONCURRENT_SERVER_TASKS network tasks are created and
\* not yet terminated, under every interleaving; a request made while that
\* many are in flight creates no task and leaves nothing behind.
C18_AtMostTwoTasksInFlight ==
    /\ [](Cardinality(TasksInFlight) <= MAX_CONCURRENT_SERVER_TASKS)
    /\ [][\A t \in DeviceTasks :
             (/\ Launch(t)
              /\ Cardinality(TasksInFlight) >= MAX_CONCURRENT_SERVER_TASKS)
             => UNCHANGED taskPc]_vars

\* activeServerTasks counts the tasks that have started, not those created
C18_CounterBelowTasks ==
    /\ activeServerTasks = Cardinality({t \in DeviceTasks : taskPc[t] = "started"})
    /\ activeServerTasks <= Cardinality(TasksInFlight)

(***************************************************************************)
(* Properties of the config mutex.                                         *)
(***************************************************************************)
\* the pairs of thresholds of the snapshots the device has between merges:
\* those of setup and those of the documents fetched
CommittedThresholds ==
    {<<NewDeviceConfig.upperThreshold.value, NewDeviceConfig.lowerThreshold.value>>}
    \cup {<<d.v.upperThreshold, d.v.lowerThreshold>> : d \in MutexDocs}

\* while the mutex is free deviceConfig is one of these snapshots and equals
\* lastSyncedConfig in its values
MutexFreeCommitted ==
    configMutex = "free" =>
       /\ <<deviceConfig.upperThreshold.value, deviceConfig.lowerThreshold.value>>
             \in CommittedThresholds
       /\ ~ValuesChanged(deviceConfig, lastSyncedConfig)

\* C19: the fetch-merge-apply sequence runs under one mutex held throughout,
\* so that no concurrent reader, here the control loop's sensor and pump
\* update, observes a partially merged aggregate.
C19_NoPartialMergeObserved ==
    sensorPass.pc = "done" =>
       <<sensorPass.upperThreshold, sensorPass.lowerThreshold>>
          \in CommittedThresholds

(***************************************************************************)
(* Properties of the device clock.                                         *)
(***************************************************************************)
\* the wraps of millis() since the last setTimestamp
WrapsSinceSync == (timeSync.millisAtSync + timeSync.elapsed) \div MillisPeriod

\* C20: between two calls of setTimestamp, getCurrentTimestamp answers the
\* timestamp last set plus the milliseconds truly elapsed since, also after
\* millis() wrapped; each wrap is counted once in overflowCount, and the
\* count is saved at once.
C20_TimestampIsSyncPlusElapsed ==
    [][(ClockGetCurrentTimestamp /\ timeSync.lastServerTimestamp > 0) =>
          /\ timeSync'.stamp = timeSync.lastServerTimestamp + timeSync.elapsed
          /\ timeSync'.overflowCount = WrapsSinceSync
          /\ timeSync'.saved = timeSync'.overflowCount]_vars

\* the overflow count in memory is the one saved
C20_OverflowCountSaved == timeSync.saved = timeSync.overflowCount

(***************************************************************************)
(* Properties of the uploads that need a synced clock.                     *)
(***************************************************************************)
\* a step in which the app's POST of control data makes the handler upload
\* the control data to the cloud
ControlUploadByApp ==
    \E ps \in BOOLEAN, ts \in ServerTimes :
        /\ HandlePostControl(ps, ts)
        /\ WebPostControl(webControlData, authenticated, ps, ts, DeviceNow).upload

\* C21: no config push and no control upload is sent while the clock is not
\* synced; the operation checks isTimeSynced() first and is deferred.
C21_NoUploadBeforeTimeSync ==
    [][ControlUploadByApp => IsTimeSynced]_vars

(***************************************************************************)
(* Properties of the timestamps of self updates.                           *)
(***************************************************************************)
\* C22: a self update stamps the fields it writes with the clock's current
\* timestamp, the last external time plus the time elapsed, never with the
\* raw millisecond counter.
C22_SelfUpdateUsesClock ==
    [][/\ (\E ps \in BOOLEAN, cu \in BOOLEAN : StampControlUpdateSelf(ps, cu))
          => \A f \in DOMAIN controlHandler :
                controlHandler'[f].lastModified = CurrentTimestampOf(timeSync)
       /\ StampConfigUpdateSelf
          => \A f \in ConfigFields :
                configHandler'[f].lastModified = CurrentTimestampOf(timeSync)]_vars

(***************************************************************************)
(* Properties of the local control API and of the pump relay, checked      *)
(* under SpecRelay.                                                        *)
(***************************************************************************)
\* the body's fields all carry a set timestamp (no priority override) that
\* is older than the one the web server holds for the field
StaleWrite(req) ==
    /\ req.pumpSwitch.present \/ req.config_update.present
    /\ \A f \in {"pumpSwitch", "config_update"} :
          req[f].present =>
             /\ req[f].lastModified # 0
             /\ req[f].lastModified < webControlData[f].lastModified

\* C23: an app write whose timestamps are older than the current control
\* values and that carries no priority override is answered with the
\* conflict status 409, and leaves the control values, their timestamps and
\* the pump relay as they were.
C23_StaleWriteRejected ==
    [][\A req \in PostBodies :
          (StaleWrite(req) /\ LocalPostControl(req)) =>
             /\ httpResponse' = 409
             /\ webControlData' = webControlData
             /\ relay' = relay]_vars


\* C24: every POST of the control data writes the submitted values and
\* timestamps into the local slot of the control aggregate
\* (updateFromLocal) before it is answered.
C24_PostWritesLocalSlot ==
    [][\A req \in PostBodies :
          (req.pumpSwitch.present /\ LocalPostControl(req)) =>
             /\ controlHandler'.pumpSwitch.local_value = req.pumpSwitch.value
             /\ controlHandler'.pumpSwitch.local_lastModified =
                   req.pumpSwitch.lastModified]_vars


\* Auto mode: the controller's mode is AUTO and no hardware override is on
AutoMode == relay.currentMode = "AUTO" /\ ~relay.hardwareOverride

\* the pump state the hysteresis rule gives for a level
Hysteresis(waterLevel, lower, upper, pumpState) ==
    IF waterLevel < lower THEN TRUE
    ELSE IF waterLevel > upper THEN FALSE
    ELSE pumpState

\* C25: in Auto mode a sensor update turns the pump on when the level is
\* below the lower threshold, off when it is above the upper threshold, and
\* leaves it as it is in between; with the thresholds 20 and 85 the running
\* device turns the pump on only on a level below 20 and off only on a level
\* above 85.
C25_AutoHysteresis ==
    [][AutoMode =>
          /\ \A waterLevel \in WaterLevels :
                UpdateSensors(waterLevel) =>
                   relay'.pumpState =
                      Hysteresis(waterLevel, deviceConfig.lowerThreshold.value,
                                 deviceConfig.upperThreshold.value,
                                 relay.pumpState)
          /\ (relay'.pumpState # relay.pumpState /\ ~Reboot) =>
                \E waterLevel \in WaterLevels :
                   /\ UpdateSensors(waterLevel)
                   /\ relay'.pumpState => waterLevel < 20 * 2000
                   /\ ~relay'.pumpState => waterLevel > 85 * 2000]_vars

\* the pump is on in Auto mode, and only a sensor update can have turned it
\* on: the mode was never changed and no POST was answered since boot
C25_Witness ==
    /\ AutoMode
    /\ relay.pumpState
    /\ prefAutoMode = "unset"
    /\ httpResponse = 0


\* C26: while the hardware override is on, no sensor update, cloud command,
\* button press or app command changes the pump relay.
C26_OverrideHoldsPump ==
    [][(relay.hardwareOverride /\ relay'.hardwareOverride) =>
          relay'.pumpState = relay.pumpState]_vars


\* the mode the NVS holds; without a stored key the default is Auto
PersistedMode == IF prefAutoMode = "false" THEN "MANUAL" ELSE "AUTO"

C28_AppCommandAlwaysApplied ==
    [][\A req \in PostBodies :
          (/\ req.pumpSwitch.present
           /\ ~req.config_update.present
           /\ LocalPostControl(req)
           /\ httpResponse' = 200) =>
             relay'.pumpState = req.pumpSwitch.value]_vars


(***************************************************************************)
(* Properties of the aggregates' slots, checked under SpecAggregate.       *)
(***************************************************************************)
ApiSlot == {"api_value", "api_lastModified"}

LocalSlot == {"local_value", "local_lastModified"}

MergedSlot == {"value", "lastModified"}

\* handler h2 has, in every field, the members kept of handler h
SlotsKept(h, h2, kept) ==
    \A f \in DOMAIN h : \A k \in kept : h2[f][k] = h[f][k]

\* C29: updateFromAPI changes the api value and timestamp of each field and
\* nothing else, updateFromLocal the local value and timestamp and nothing
\* else: the merged value and timestamp and the other source's slot stay as
\* they were, in the control and in the config aggregate.
C29_UpdateWritesOwnSlotOnly ==
    [][/\ CtlUpdateFromAPI =>
             /\ SlotsKept(controlHandler, controlHandler', LocalSlot \cup MergedSlot)
             /\ configHandler' = configHandler
       /\ CtlUpdateFromLocal =>
             /\ SlotsKept(controlHandler, controlHandler', ApiSlot \cup MergedSlot)
             /\ configHandler' = configHandler
       /\ CfgUpdateFromAPI =>
             /\ SlotsKept(configHandler, configHandler', LocalSlot \cup MergedSlot)
             /\ controlHandler' = controlHandler
       /\ CfgUpdateFromLocal =>
             /\ SlotsKept(configHandler, configHandler', ApiSlot \cup MergedSlot)
             /\ controlHandler' = controlHandler]_vars

\* the API slot of the pump switch was written, the local slot and the
\* merged value are still those of begin()
C29_Witness ==
    /\ which = "control"
    /\ controlHandler.pumpSwitch.api_value = TRUE
    /\ controlHandler.pumpSwitch.api_lastModified = MaxAggTs
    /\ SlotsKept(ControlBegin, controlHandler, LocalSlot \cup MergedSlot)


SnapshotIsMerged(config, h) ==
    \A f \in ConfigFields :
       /\ config[f].value = h[f].value
       /\ config[f].lastModified = h[f].lastModified

C32_NoZeroApiTimestampMerged ==
    [][/\ ((\E resp \in ConfigResponses : FetchConfig(resp)) /\ lastRet') =>
             \A f \in ConfigFields : configHandler'[f].api_lastModified # 0
       /\ ((\E resp \in ControlResponses : FetchControl(resp)) /\ lastRet') =>
             /\ controlHandler'.pumpSwitch.api_lastModified # 0
             /\ controlHandler'.configUpdate.api_lastModified # 0]_vars


(***************************************************************************)
(* Properties of the tasks around configMutex and activeServerTasks,       *)
(* checked under SpecLock and SpecLockFair.                                *)
(***************************************************************************)
\* C33: every started network background task eventually terminates
\* (handle NULL again) on every path; a task holds configMutex only inside
\* its block, so a terminating or terminated task has released it; and no
\* task waits forever in xSemaphoreTake.
C33_TasksTerminate ==
    /\ [](\A t \in LockTasks : configMutex = t <=> taskPc[t] = "holding")
    /\ \A t \in LockTasks : (taskPc[t] = "created") ~> (taskPc[t] = "none")
    /\ \A t \in LockTasks : (taskPc[t] = "waiting") ~> (taskPc[t] = "holding")

\* one task is terminating while a second holds the mutex and the third
\* waits for it
C33_Witness ==
    \E t \in LockTasks, u \in LockTasks, v \in LockTasks :
        /\ taskPc[t] = "dec"
        /\ taskPc[u] = "holding" /\ configMutex = u
        /\ taskPc[v] = "waiting"


\* the tasks that have executed their "activeServerTasks++" and not yet
\* their "activeServerTasks--"
CountedTasks == {t \in LockTasks : taskPc[t] \in {"checks", "waiting", "holding", "exit"}}

\* C37: activeServerTasks is never negative and, whenever no task is inside
\* an increment or decrement, equals the number of tasks started and not
\* finished (0 when none is running).
C37_CounterEqualsRunningTasks ==
    /\ activeServerTasks >= 0
    /\ (\A t \in LockTasks : taskPc[t] \notin {"inc", "dec"}) =>
           activeServerTasks = Cardinality(CountedTasks)


(***************************************************************************)
(* Properties of the priority setters, checked under SpecAggregate.        *)
(***************************************************************************)
\* C34: a merge() that directly follows setPumpSwitchPriority,
\* setConfigUpdatePriority or setAllPriority, with no update in between,
\* leaves the value the setter asserted as the merged value.
C34_PriorityValueSurvivesMerge ==
    [][/\ (phase = "pumpSwitchPriority" /\ CtlMerge) =>
             controlHandler'.pumpSwitch.value = controlHandler.pumpSwitch.value
       /\ (phase = "configUpdatePriority" /\ CtlMerge) =>
             controlHandler'.configUpdate.value = controlHandler.configUpdate.value
       /\ (phase = "allPriority" /\ CfgMerge) =>
             \A f \in ConfigFields :
                 configHandler'[f].value = configHandler[f].value]_vars


(***************************************************************************)
(* Properties of the config refresh, checked under SpecRefetch.            *)
(***************************************************************************)
\* C35: while device_config_sync_status says ToServer (false), no step
\* changes a merged value of the config handler or a value of the
\* deviceConfig snapshot: fetched api values are not applied.
C35_NoApplyWhilePending ==
    [][~syncStatus.device_config_sync_status =>
         /\ \A f \in ConfigFields :
               configHandler'[f].value = configHandler[f].value
         /\ \A f \in DeviceConfigFields :
               deviceConfig'[f].value = deviceConfig[f].value]_vars


(***************************************************************************)
(* Properties of the copies of the control data, checked under SpecOnline. *)
(***************************************************************************)
\* the merged values and timestamps of a control handler, as a ControlData
MergedControl(h) ==
    [pumpSwitch |-> [value |-> h.pumpSwitch.value,
                     lastModified |-> h.pumpSwitch.lastModified],
     config_update |-> [value |-> h.configUpdate.value,
                        lastModified |-> h.configUpdate.lastModified]]

\* C36: whenever no task is in flight (every handler has returned), the
\* control data GET /control answers with (the web server's copy) and
\* main's snapshot equal the merged values and timestamps of the control
\* handler.
C36_CopiesAgreeAtRest ==
    TasksInFlight = {} =>
        /\ webControlData = MergedControl(controlHandler)
        /\ controlData = MergedControl(controlHandler)


(***************************************************************************)
(* Properties of device-originated changes, checked under SpecSurvive.     *)
(***************************************************************************)
\* C38: when updateSelf writes a field whose api and local observations are
\* stamped not later than the device's current timestamp at that moment (a
\* set timestamp, above 0), the next merge selects SELF and keeps the value
\* updateSelf wrote.
C38_SelfChangeSurvivesMerge ==
    [][\A ps \in BOOLEAN :
          (/\ StampControlUpdateSelf(ps, FALSE)
           /\ CurrentTimestampOf(timeSync) > 0
           /\ controlHandler.pumpSwitch.api_lastModified
                 <= CurrentTimestampOf(timeSync)
           /\ controlHandler.pumpSwitch.local_lastModified
                 <= CurrentTimestampOf(timeSync)) =>
             /\ FindWinner(controlHandler'.pumpSwitch.api_lastModified,
                           controlHandler'.pumpSwitch.local_lastModified,
                           controlHandler'.pumpSwitch.lastModified) = 3
             /\ ControlMerge(controlHandler').handler.pumpSwitch.value = ps]_vars


(***************************************************************************)
(* Properties of the pump mode, checked under SpecRelay.                   *)
(***************************************************************************)
\* C39: in every state the relay controller's hardwareOverride flag is set
\* exactly when its current mode is MODE_OVERRIDE.
C39_OverrideFlagIffOverrideMode ==
    relay.hardwareOverride <=> relay.currentMode = "OVERRIDE"


(***************************************************************************)
(* Properties of the clock across reboots, checked under SpecReboot.       *)
(***************************************************************************)
\* C40: after a reboot and before any new time sync, getCurrentTimestamp
\* never answers less than the persisted lastServerTimestamp.
C40_ClockNotBehindAfterReboot ==
    [][(ClockGetCurrentTimestamp /\ timeSync.rebooted) =>
          timeSync'.stamp >= timeSync.lastServerTimestamp]_vars


=============================================================================
